---- MODULE Spec2Model ----
(***************************************************************************)
(* The Layout inspector plugin (src/src/plugins/layout/index.js): the two  *)
(* element stores (main and accessibility), the reducers that update them, *)
(* the remote fetcher getNodes, the recursive invalidation, the expansion  *)
(* handlers, the cross-tree correlation, the search and the accessibility  *)
(* focus events.                                                           *)
(*                                                                         *)
(* Every handler runs to completion up to its next remote call: a remote   *)
(* call is a record in `inflight` that carries the continuation (the .then *)
(* callback) and is answered by a Respond action, in any order.  A promise *)
(* that resolves without a remote call (Promise.resolve([])) continues in  *)
(* the same step, as its microtask runs before any other event.            *)
(* dispatchAction applies the reducer to this.state synchronously.         *)
(***************************************************************************)
EXTENDS Integers, Sequences, FiniteSets, TLC

VARIABLES
  elements,               \* state.elements: id -> element record
  AXelements,             \* state.AXelements
  root,                   \* state.root (Null until set)
  AXroot,                 \* state.AXroot
  initialised,            \* state.initialised
  AXinitialised,          \* state.AXinitialised
  selected,               \* state.selected
  AXselected,             \* state.AXselected
  AXfocused,              \* state.AXfocused
  inAXMode,               \* state.inAXMode
  AXtoNonAXMapping,       \* state.AXtoNonAXMapping: ax id -> main id
  searchResults,          \* state.searchResults
  outstandingSearchQuery, \* state.outstandingSearchQuery
  highlighted,            \* id of the last setHighlighted message sent
  inflight,               \* remote calls awaiting their response
  started,                \* init() has run
  axEnabled,              \* result of axEnabled(): fixed for a session
  world,                  \* which remote hierarchy the inspected app has
  limit,                  \* how many UI events and notifications are modelled
  remoteFocus,            \* the accessibility node the remote app focuses
  ops,                    \* number of UI events and notifications handled
  fetches,                \* observer: the last two getNodes invocations per tree
  invDone,                \* observer: levels of the last finished invalidate
  deepOps,                \* observer: expand operations of the last deepExpandElement
  lastEvent,              \* observer: the last handler that ran, with its input
  submitted,              \* observer: the last search submitted, and whether a
                          \* response carrying its query has arrived since
  failed,                 \* observer: how many remote calls were rejected
  merged                  \* reducer harness: a batch, and the store before its merge

vars ==
  << elements, AXelements, root, AXroot, initialised, AXinitialised, selected,
     AXselected, AXfocused, inAXMode, AXtoNonAXMapping, searchResults,
     outstandingSearchQuery, highlighted, inflight, started,
     axEnabled, world, limit, remoteFocus, ops, fetches, invDone, deepOps,
     lastEvent, submitted, failed, merged >>

\* what no handler changes: the session's configuration, the reducer harness
conf == << axEnabled, world, limit, merged >>

(***************************************************************************)
(* Bounds of the model and constants of the program.                       *)
(***************************************************************************)
MaxOps == 1         \* UI events and notifications per behaviour of Spec
FetchOps == 3       \* ... of SpecFetch
InvalidateOps == 2  \* ... of SpecInvalidate
SelectOps == 2      \* ... of SpecSelect
SearchOps == 2      \* ... of SpecSearch
FocusOps == 2       \* ... of SpecFocus
InitOps == 2        \* ... of SpecInit
DeepOps == 2        \* ... of SpecDeep
MaxDeepKey == 3     \* the ids deep expansion is started on in SpecDeep
WrapOps == 4        \* ... of SpecWrap
CorrelateOps == 3   \* ... of SpecCorrelate
FailOps == 2        \* ... of SpecFail
MaxFailures == 1    \* remote calls rejected per behaviour
LiveOps == 2        \* ... of SpecInvalidateLive and SpecInitLive
DeepTreeOps == 3    \* ... of SpecDeepTree
OverlapOps == 2     \* ... of SpecOverlap
StoreOps == 2       \* ... of SpecStore
MaxBatch == 2       \* records per batch in SpecMerge
MaxInflight == 2    \* remote calls in flight at once
WideNodes == 104    \* size of the wide remote hierarchy
DeepExpandCap == 100
Null == 0
NullQuery == "null"
Queries == {"foo", "bar", "zip", "bad"}

(***************************************************************************)
(* The inspected application: the remote side of getRoot, getNodes,        *)
(* getAXNodes and getSearchResults.  Both hierarchies use one id space.    *)
(***************************************************************************)
RemoteIds ==
  CASE world = "tree" -> 1..5
    [] world = "chain" -> 1..7
    [] world = "wide" -> 1..WideNodes

Range(lo, hi) == [i \in 1..(IF hi >= lo THEN hi - lo + 1 ELSE 0) |-> lo + i - 1]

Min(a, b) == IF a <= b THEN a ELSE b

\* tree:  1 -> 2, 3;  2 -> 4;  3 -> 5
\* chain: 1 -> 2 -> 3 -> 4;  4 -> 5, 6;  5 -> 7
\* wide:  1 -> 2, 3;  every odd node n >= 3 has the children n + 1 and n + 2,
\*        every even node is a leaf, up to WideNodes; the accessibility
\*        hierarchy of this app is 1 -> 2, 3 alone
RemoteChildren(id, ax) ==
  CASE world = "tree" ->
         (CASE id = 1 -> <<2, 3>> [] id = 2 -> <<4>> [] id = 3 -> <<5>>
            [] OTHER -> <<>>)
    [] world = "chain" ->
         (CASE id \in 1..3 -> <<id + 1>> [] id = 4 -> <<5, 6>> [] id = 5 -> <<7>>
            [] OTHER -> <<>>)
    [] world = "wide" ->
         (CASE id = 1 -> <<2, 3>>
            [] id >= 3 /\ id % 2 = 1 /\ ~ax ->
                 Range(id + 1, Min(id + 2, WideNodes))
            [] OTHER -> <<>>)

RemoteName(id) ==
  IF world = "tree" /\ id \in {3, 5} THEN "ComponentHost" ELSE "View"

\* extraInfo.linkedAXNode of a main-tree node (Null: none)
RemoteLinked(id) ==
  IF world = "tree"
    THEN (CASE id = 2 -> 5 [] id = 3 -> 5 [] id = 4 -> 2 [] OTHER -> Null)
    ELSE Null

\* extraInfo.nonAXWithAXChild of a main-tree node
RemoteWrapper(id) ==
  CASE world = "tree" -> id = 2
    [] world = "wide" -> id \in {5, 7}
    [] OTHER -> FALSE

\* The record the remote side returns for a node.  `expanded` is local UI
\* state and is never part of it.
RemoteElement(id, ax) ==
  [ id |-> id,
    name |-> RemoteName(id),
    children |-> RemoteChildren(id, ax),
    extraInfo |->
      [ linkedAXNode |-> IF ax THEN Null ELSE RemoteLinked(id),
        focused |-> ax /\ remoteFocus = id,
        nonAXWithAXChild |-> ~ax /\ RemoteWrapper(id) ] ]

\* getNodes / getAXNodes on the remote side: one record per requested id it knows
RemoteGetNodes(ids, ax) ==
  LET known == SelectSeq(ids, LAMBDA id : id \in RemoteIds)
  IN  [i \in 1..Len(known) |-> RemoteElement(known[i], ax)]

(***************************************************************************)
(* Helpers on stores and sequences.                                        *)
(***************************************************************************)
EmptyStore == [k \in {} |-> <<>>]

Put(store, key, value) ==
  [k \in (DOMAIN store) \cup {key} |-> IF k = key THEN value ELSE store[k]]

\* state.elements[key], with undefined read as the empty object
Current(store, key) == IF key \in DOMAIN store THEN store[key] ELSE <<>>

ElementIds(elems) == [i \in 1..Len(elems) |-> elems[i].id]

SeqToSet(s) == {s[i] : i \in 1..Len(s)}

RECURSIVE SortedSeq(_)
SortedSeq(S) ==
  IF S = {} THEN <<>>
  ELSE LET m == CHOOSE x \in S : \A y \in S : x <= y
       IN  <<m>> \o SortedSeq(S \ {m})

\* elements.map(e => e.children).reduce((acc, val) => acc.concat(val), [])
RECURSIVE ConcatChildren(_)
ConcatChildren(elems) ==
  IF elems = <<>> THEN <<>>
  ELSE Head(elems).children \o ConcatChildren(Tail(elems))

(***************************************************************************)
(* The plugin state a handler reads and updates while it runs, with the    *)
(* remote calls it issues (calls) and what the observers record.           *)
(***************************************************************************)
\* what a callback of onSelectResultsRecieved selects and highlights
NotShown ==
  [ran |-> FALSE, select |-> FALSE, key |-> Null, AXkey |-> Null, id |-> Null]

Here ==
  [ elements |-> elements,
    AXelements |-> AXelements,
    AXfocused |-> AXfocused,
    AXtoNonAXMapping |-> AXtoNonAXMapping,
    initialised |-> initialised,
    AXinitialised |-> AXinitialised,
    waiting |-> inflight,
    calls |-> <<>>,
    shown |-> NotShown,
    threw |-> FALSE,
    fetches |-> fetches,
    invDone |-> invDone,
    deepOps |-> deepOps ]

\* the same, in the callback of the call inflight[i]
After(i) ==
  [Here EXCEPT !.waiting = SubSeq(inflight, 1, i - 1) \o SubSeq(inflight, i + 1, Len(inflight))]

StoreOf(st, ax) == IF ax THEN st.AXelements ELSE st.elements

\* the ids of the getNodes calls of a tree that are still unanswered
RECURSIVE IdsOf(_, _)
IdsOf(calls, ax) ==
  IF calls = <<>> THEN {}
  ELSE (IF Head(calls).call = "getNodes" /\ Head(calls).ax = ax
          THEN {Head(calls).ids[j] : j \in 1..Len(Head(calls).ids)} ELSE {})
       \cup IdsOf(Tail(calls), ax)

\* the continuation of a remote call: which .then callback runs on the
\* response, and the values that callback closes over
NoK ==
  [ kind |-> "none", ax |-> FALSE, key |-> Null, children |-> <<>>,
    acc |-> <<>>, queue |-> <<>>, count |-> 0, loop |-> FALSE,
    chain |-> "none", given |-> <<>>, hist |-> <<>>,
    flag |-> FALSE, before |-> Null ]

(***************************************************************************)
(* Reducers.                                                               *)
(***************************************************************************)
\* a faulty variant: the incoming record replaces the stored one
ReplaceElement(current, element) == element

\* {...current, ...element}
MergeElement(current, element) ==
  [f \in (DOMAIN current) \cup (DOMAIN element) |->
     IF f \in DOMAIN element THEN element[f] ELSE current[f]]

ExpandElement(st, key, expand) ==
  [st EXCEPT !.elements =
     Put(@, key, MergeElement(Current(@, key), [expanded |-> expand]))]

ExpandAXElement(st, key, expand) ==
  [st EXCEPT !.AXelements =
     Put(@, key, MergeElement(Current(@, key), [expanded |-> expand]))]

\* a faulty variant: only the listed keys stay in the store
KeepListed(st, ids) ==
  [st EXCEPT !.elements =
     [k \in DOMAIN @ \cap SeqToSet(ids) |-> MergeElement(@[k], [expanded |-> TRUE])]]

\* a faulty variant: the listed keys are expanded, the others keep their flag
ExpandListed(st, ids) ==
  [st EXCEPT !.elements =
     [k \in DOMAIN @ |->
        IF k \in SeqToSet(ids) THEN MergeElement(@[k], [expanded |-> TRUE])
        ELSE @[k]]]

\* every key of the store gets expanded = expandedSet.has(key)
ExpandElements(st, ids) ==
  [st EXCEPT !.elements =
     [k \in DOMAIN @ |->
        MergeElement(@[k], [expanded |-> k \in SeqToSet(ids)])]]

\* element.extraInfo && element.extraInfo.linkedAXNode
LinkedAXNode(element) ==
  IF "extraInfo" \in DOMAIN element THEN element.extraInfo.linkedAXNode ELSE Null

\* a faulty variant: the last record that carries the link wins
OverwriteMapping(mapping, element) ==
  LET linked == LinkedAXNode(element)
  IN  IF linked # Null THEN Put(mapping, linked, element.id) ELSE mapping

\* if (linked && !updatedMapping[linked]) updatedMapping[linked] = element.id
UpdateMapping(mapping, element) ==
  LET linked == LinkedAXNode(element)
  IN  IF linked # Null /\ linked \notin DOMAIN mapping
        THEN Put(mapping, linked, element.id)
        ELSE mapping

\* updatedElements and updatedMapping are state.elements and
\* state.AXtoNonAXMapping themselves, written in place: reading .id of an
\* undefined element throws with the earlier elements already merged
RECURSIVE UpdateElements(_, _)
UpdateElements(st, elems) ==
  IF elems = <<>> THEN st
  ELSE IF "id" \notin DOMAIN Head(elems) THEN [st EXCEPT !.threw = TRUE]
  ELSE LET element == Head(elems)
           st1 == [st EXCEPT
                     !.elements =
                       Put(@, element.id, MergeElement(Current(@, element.id), element)),
                     !.AXtoNonAXMapping = UpdateMapping(@, element)]
       IN  UpdateElements(st1, Tail(elems))

\* a faulty variant: the previous focus is kept whatever the flag
KeepFocus(focused, forFocusEvent) == focused

\* let updatedFocus = forFocusEvent ? null : state.AXfocused
InitialFocus(focused, forFocusEvent) == IF forFocusEvent THEN Null ELSE focused

\* element.extraInfo && element.extraInfo.focused
IsFocused(element) ==
  IF "extraInfo" \in DOMAIN element THEN element.extraInfo.focused ELSE FALSE

RECURSIVE MergeAXElements(_, _)
MergeAXElements(st, elems) ==
  IF elems = <<>> THEN st
  ELSE LET element == Head(elems)
           st1 == [st EXCEPT
                     !.AXfocused = IF IsFocused(element) THEN element.id ELSE @,
                     !.AXelements =
                       Put(@, element.id, MergeElement(Current(@, element.id), element))]
       IN  MergeAXElements(st1, Tail(elems))

UpdateAXElements(st, elems, forFocusEvent) ==
  MergeAXElements(
    [st EXCEPT !.AXfocused = InitialFocus(@, forFocusEvent)], elems)

\* dispatchAction({type: ax ? 'UpdateAXElements' : 'UpdateElements', elements})
DispatchUpdate(st, elems, ax) ==
  IF ax THEN UpdateAXElements(st, elems, FALSE) ELSE UpdateElements(st, elems)

\* dispatchAction({type: ax ? 'ExpandAXElement' : 'ExpandElement', key, expand})
DispatchExpand(st, key, expand, ax) ==
  IF ax THEN ExpandAXElement(st, key, expand) ELSE ExpandElement(st, key, expand)

(***************************************************************************)
(* The remote fetcher.                                                     *)
(***************************************************************************)
\* a faulty variant: the cache is never consulted
FilterNothing(ids, store) == ids

\* ids.filter(id => store[id] === undefined)
FilterUncached(ids, store) ==
  SelectSeq(ids, LAMBDA id : id \notin DOMAIN store)

LastTwo(s) == IF Len(s) > 2 THEN SubSeq(s, Len(s) - 1, Len(s)) ELSE s

\* getNodes(ids, {force, ax, forFocusEvent}).then(k): the call is issued when
\* ids remain, else the promise resolves with [] and no call is made
GetNodes(st, ids, force, ax, forFocusEvent, k) ==
  LET sent == IF force THEN ids ELSE FilterUncached(ids, StoreOf(st, ax))
      seen == [ arg |-> ids, ax |-> ax, force |-> force, sent |-> sent,
                keys |-> DOMAIN StoreOf(st, ax),
                pending |-> IdsOf(st.waiting \o st.calls, ax) ]
      st1 == [st EXCEPT !.fetches[ax] = LastTwo(Append(@, seen))]
  IN  IF Len(sent) > 0
        THEN [st1 EXCEPT !.calls =
               Append(@, [ call |-> "getNodes", ax |-> ax, ids |-> sent,
                           forFocusEvent |-> forFocusEvent, query |-> "",
                           k |-> k ])]
        ELSE st1

\* whether the last GetNodes from st0 to st1 issued a remote call
Issued(st0, st1) == Len(st1.calls) > Len(st0.calls)

\* getChildren(key, ax): the children of the stored record; a record without
\* children passes undefined, which getNodes defaults to []
GetChildren(st, key, ax, k) ==
  LET rec == StoreOf(st, ax)[key]
      ids == IF "children" \in DOMAIN rec THEN rec.children ELSE <<>>
  IN  GetNodes(st, ids, FALSE, ax, FALSE, k)

(***************************************************************************)
(* Initial expansion.                                                      *)
(***************************************************************************)
\* .then(() => this.setState({initialised: true})) of init and initAX
SetInitialised(st, ax) ==
  IF ax THEN [st EXCEPT !.AXinitialised = TRUE]
        ELSE [st EXCEPT !.initialised = TRUE]

RECURSIVE performInitialExpand(_, _, _)
RECURSIVE AfterInitialExpandFetch(_, _, _, _)

\* element: the record passed in (its id and children are read); the chain
\* ends, and the caller's .then runs, where the function returns
performInitialExpand(st, element, ax) ==
  IF Len(element.children) = 0 THEN SetInitialised(st, ax)
  ELSE LET st1 == DispatchExpand(st, element.id, TRUE, ax)
           k == [NoK EXCEPT !.kind = "initialExpand", !.ax = ax,
                            !.key = element.id, !.children = element.children]
           st2 == GetChildren(st1, element.id, ax, k)
       IN  IF Issued(st1, st2) THEN st2
           ELSE AfterInitialExpandFetch(st2, element.children, <<>>, ax)

\* a faulty variant: the walk follows the first child whatever their number
FollowFirstChild(st, children, elems, ax) ==
  LET st1 == DispatchUpdate(st, elems, ax)
      store == StoreOf(st1, ax)
  IN  IF children[1] \notin DOMAIN store THEN st1
      ELSE performInitialExpand(st1, store[children[1]], ax)

\* a faulty variant: the walk stops at the first node that has a child
StopAtAnyChild(st, children, elems, ax) ==
  SetInitialised(DispatchUpdate(st, elems, ax), ax)

\* a faulty variant: the walk goes on only from children it fetched itself
FetchedOnly(st, children, elems, ax) ==
  LET st1 == DispatchUpdate(st, elems, ax)
      store == StoreOf(st1, ax)
  IN  IF elems = <<>> THEN st1
      ELSE IF Len(children) >= 2 THEN SetInitialised(st1, ax)
      ELSE performInitialExpand(st1, store[children[1]], ax)

\* the .then callback of getChildren in performInitialExpand; reading
\* .children of a missing record throws and the chain is rejected
AfterInitialExpandFetch(st, children, elems, ax) ==
  LET st1 == DispatchUpdate(st, elems, ax)
      store == StoreOf(st1, ax)
  IN  IF Len(children) >= 2 THEN SetInitialised(st1, ax)
      ELSE IF children[1] \notin DOMAIN store THEN st1
      ELSE IF "children" \notin DOMAIN store[children[1]] THEN st1
      ELSE performInitialExpand(st1, store[children[1]], ax)

(***************************************************************************)
(* Expansion.                                                              *)
(***************************************************************************)
\* state.elements[key].expanded, undefined read as false
isExpanded(st, key, ax) ==
  LET rec == StoreOf(st, ax)[key]
  IN  IF "expanded" \in DOMAIN rec THEN rec.expanded ELSE FALSE

\* childElem.extraInfo && childElem.extraInfo.nonAXWithAXChild
IsWrapper(element) ==
  IF "extraInfo" \in DOMAIN element
    THEN element.extraInfo.nonAXWithAXChild ELSE FALSE

\* a faulty variant: the children are fetched when collapsing too
AlwaysFetch(st, key, expand, ax, k) ==
  GetChildren(DispatchExpand(st, key, expand, ax), key, ax,
              [k EXCEPT !.kind = "setExpanded", !.ax = ax, !.key = key])

\* k: what the caller does with the promise (nothing, or the deep loop)
setElementExpanded(st, key, expand, ax, k) ==
  LET st1 == DispatchExpand(st, key, expand, ax)
      st2 == IF expand /\ k.chain = "deep"
               THEN [st1 EXCEPT !.deepOps[ax] = @ + 1] ELSE st1
  IN  IF expand
        THEN GetChildren(st2, key, ax,
                         [k EXCEPT !.kind = "setExpanded", !.ax = ax, !.key = key])
        ELSE st2

\* for (const childElem of elements) if wrapper: setElementExpanded(id, true, false)
RECURSIVE ExpandWrappers(_, _, _)
ExpandWrappers(st, elems, chain) ==
  IF elems = <<>> THEN st
  ELSE LET st1 == IF IsWrapper(Head(elems))
                    THEN setElementExpanded(st, Head(elems).id, TRUE, FALSE,
                                            [NoK EXCEPT !.chain = chain])
                    ELSE st
       IN  ExpandWrappers(st1, Tail(elems), chain)

\* the while loop of deepExpandElement, up to its next await on a remote call
\* (from: the key the traversal started on, kept for the observer k.given)
RECURSIVE DeepLoop(_, _, _, _, _)
DeepLoop(st, keys, count, ax, from) ==
  IF Len(keys) = 0 \/ ~(count < DeepExpandCap) THEN st
  ELSE LET k == [NoK EXCEPT !.chain = "deep", !.loop = TRUE,
                            !.queue = Tail(keys), !.count = count,
                            !.given = <<from>>]
           st1 == setElementExpanded(st, Head(keys), TRUE, ax, k)
       IN  IF Issued(st, st1) THEN st1
           ELSE DeepLoop(st1, Tail(keys), count + 1, ax, from)

\* the .then callback of getChildren in setElementExpanded, and what awaits it
AfterExpandFetch(st, k, elems) ==
  LET st1 == DispatchUpdate(st, elems, k.ax)
      st2 == IF inAXMode /\ ~k.ax
               THEN ExpandWrappers(st1, elems, k.chain) ELSE st1
  IN  IF k.loop
        THEN DeepLoop(st2, k.queue \o ElementIds(elems), k.count + 1, k.ax,
                      k.given[1])
        ELSE st2

expandElement(st, key, ax) ==
  setElementExpanded(st, key, ~isExpanded(st, key, ax), ax, NoK)

\* a faulty variant: the traversal runs whether or not the node is expanded
AlwaysTraverse(st, key, ax) ==
  DeepLoop([st EXCEPT !.deepOps[ax] = 0], <<key>>, 0, ax, key)

deepExpandElement(st, key, ax) ==
  IF isExpanded(st, key, ax)
    THEN setElementExpanded(st, key, FALSE, ax, NoK)
    ELSE DeepLoop([st EXCEPT !.deepOps[ax] = 0], <<key>>, 0, ax, key)

\* onElementExpanded(key, deep): both trees, where the key is loaded
onElementExpanded(st, key, deep) ==
  LET st1 == IF key \in DOMAIN st.elements
               THEN (IF deep THEN deepExpandElement(st, key, FALSE)
                             ELSE expandElement(st, key, FALSE))
               ELSE st
  IN  IF key \in DOMAIN st1.AXelements
        THEN (IF deep THEN deepExpandElement(st1, key, TRUE)
                      ELSE expandElement(st1, key, TRUE))
        ELSE st1

(***************************************************************************)
(* Invalidation.                                                           *)
(***************************************************************************)
\* a faulty variant: every cached node is descended into, expanded or not
PrevCached(store, id) == id \in DOMAIN store

\* prev && prev.expanded
PrevExpanded(store, id) ==
  IF id \in DOMAIN store
    THEN (IF "expanded" \in DOMAIN store[id] THEN store[id].expanded ELSE FALSE)
    ELSE FALSE

\* the children of the returned elements whose previous record was expanded
InvalidateChildren(elems, store) ==
  ConcatChildren(SelectSeq(elems, LAMBDA e : PrevExpanded(store, e.id)))

\* the subscriber's .then: the whole result is merged, once
FinishInvalidate(st, k) ==
  [DispatchUpdate(st, k.acc, k.ax) EXCEPT
     !.invDone = [ax |-> k.ax, given |-> k.given, hist |-> k.hist]]

\* a faulty variant: with no ids left the given ids are requested once more
StartOver(st, ids, ax, k) ==
  GetNodes(st, IF Len(ids) = 0 THEN k.given ELSE ids, TRUE, ax, FALSE,
           [k EXCEPT !.kind = "invalidate", !.ax = ax,
                     !.acc = IF Len(ids) = 0 THEN <<>> ELSE @,
                     !.hist = IF Len(ids) = 0 THEN <<>> ELSE @])

\* k.acc: the elements of the levels fetched so far
invalidate(st, ids, ax, k) ==
  IF Len(ids) = 0 THEN FinishInvalidate(st, [k EXCEPT !.ax = ax])
  ELSE GetNodes(st, ids, TRUE, ax, FALSE,
                [k EXCEPT !.kind = "invalidate", !.ax = ax])

\* a faulty variant: each level is merged as soon as it arrives
MergeEachLevel(st, c, elems) ==
  invalidate(DispatchUpdate(st, elems, c.ax),
             InvalidateChildren(elems, StoreOf(st, c.ax)), c.ax,
             [c.k EXCEPT !.acc = @ \o elems,
                         !.hist = Append(@, [req |-> c.ids, ret |-> elems, exp |-> {}])])

\* the .then callback of getNodes in invalidate, for the call c
AfterInvalidateFetch(st, c, elems) ==
  LET store == StoreOf(st, c.ax)
      level == [ req |-> c.ids, ret |-> elems,
                 exp |-> {id \in SeqToSet(ElementIds(elems)) :
                            id \in DOMAIN store /\ "expanded" \in DOMAIN store[id]
                            /\ store[id].expanded} ]
      k == [c.k EXCEPT !.acc = @ \o elems, !.hist = Append(@, level)]
  IN  invalidate(st, InvalidateChildren(elems, store), c.ax, k)

(***************************************************************************)
(* Accessibility focus events.                                             *)
(***************************************************************************)
\* a faulty variant: every loaded node is refetched, focus gained or lost
AllKeys(st, isFocus) == SortedSeq(DOMAIN st.AXelements)

\* the ids the axFocusEvent subscriber refetches
FocusKeys(st, isFocus) ==
  LET keys == IF isFocus THEN SortedSeq(DOMAIN st.AXelements) ELSE <<>>
  IN  IF ~isFocus /\ st.AXfocused # Null /\ st.AXfocused \in DOMAIN st.AXelements
        THEN Append(keys, st.AXfocused)
        ELSE keys

axFocusEvent(st, isFocus) ==
  LET k == [NoK EXCEPT !.kind = "focus", !.ax = TRUE, !.flag = isFocus,
                        !.before = st.AXfocused]
      st1 == GetNodes(st, FocusKeys(st, isFocus), TRUE, TRUE, TRUE, k)
  IN  IF Issued(st, st1) THEN st1 ELSE UpdateAXElements(st1, <<>>, TRUE)

(***************************************************************************)
(* Cross-tree correlation and selection.                                   *)
(***************************************************************************)
NameOf(element) == IF "name" \in DOMAIN element THEN element.name ELSE ""

\* a faulty variant: the mapping is consulted before the record's own link
MappingFirst(els, mapping, selectedKey) ==
  IF ~axEnabled THEN [key |-> selectedKey, AXkey |-> Null]
  ELSE IF selectedKey \in DOMAIN mapping
    THEN [key |-> mapping[selectedKey], AXkey |-> selectedKey]
  ELSE IF selectedKey \in DOMAIN els /\ LinkedAXNode(els[selectedKey]) # Null
    THEN [key |-> selectedKey, AXkey |-> LinkedAXNode(els[selectedKey])]
  ELSE [key |-> selectedKey, AXkey |-> selectedKey]

\* a faulty variant: the mapping is consulted only when there is no main record
UnloadedOnly(els, mapping, selectedKey) ==
  IF ~axEnabled THEN [key |-> selectedKey, AXkey |-> Null]
  ELSE IF selectedKey \in DOMAIN els /\ LinkedAXNode(els[selectedKey]) # Null
    THEN [key |-> selectedKey, AXkey |-> LinkedAXNode(els[selectedKey])]
  ELSE IF selectedKey \notin DOMAIN els /\ selectedKey \in DOMAIN mapping
    THEN [key |-> mapping[selectedKey], AXkey |-> selectedKey]
  ELSE [key |-> selectedKey, AXkey |-> selectedKey]

getKeysFromSelected(els, mapping, selectedKey) ==
  IF ~axEnabled THEN [key |-> selectedKey, AXkey |-> Null]
  ELSE LET linkedAXNode ==
             IF selectedKey \in DOMAIN els
               THEN LinkedAXNode(els[selectedKey]) ELSE Null
       IN  IF linkedAXNode # Null
             THEN [key |-> selectedKey, AXkey |-> linkedAXNode]
           ELSE IF /\ \/ selectedKey \notin DOMAIN els
                      \/ NameOf(els[selectedKey]) = "ComponentHost"
                   /\ selectedKey \in DOMAIN mapping
             THEN [key |-> mapping[selectedKey], AXkey |-> selectedKey]
           ELSE [key |-> selectedKey, AXkey |-> selectedKey]

\* the two forced refreshes of onElementSelected
SelectFetches(st, keys) ==
  LET st1 == GetNodes(st, <<keys.key>>, TRUE, FALSE, FALSE,
                      [NoK EXCEPT !.kind = "select", !.ax = FALSE])
  IN  IF keys.AXkey # Null
        THEN GetNodes(st1, <<keys.AXkey>>, TRUE, TRUE, FALSE,
                      [NoK EXCEPT !.kind = "select", !.ax = TRUE])
        ELSE st1

\* for (const key of path) dispatchAction({expand: true, key, ...})
RECURSIVE ExpandPath(_, _, _)
ExpandPath(st, path, ax) ==
  IF path = <<>> THEN st
  ELSE ExpandPath(DispatchExpand(st, Head(path), TRUE, ax), Tail(path), ax)

\* a faulty variant: the path is expanded without the fetched elements merged
ExpandUnmerged(st, path, elems, ax) ==
  ExpandPath(st, path, ax)

\* the callback of onSelectResultsRecieved, for the elements fetched
SelectResults(st, path, elems, ax) ==
  LET st1 == DispatchUpdate(st, elems, ax)
      target == path[Len(path)]
      keys == getKeysFromSelected(st1.elements, st1.AXtoNonAXMapping, target)
      select == (ax /\ inAXMode) \/ (~ax /\ ~inAXMode)
  IN  [ExpandPath(st1, path, ax) EXCEPT
         !.shown = [ran |-> TRUE, select |-> select, key |-> keys.key,
                    AXkey |-> keys.AXkey, id |-> target]]

\* the second getNodes of getNodesAndDirectChildren has answered
AfterSelectChildrenFetch(st, k, elems) ==
  SelectResults(st, k.given, k.acc \o elems, k.ax)

\* the first getNodes of getNodesAndDirectChildren has answered
AfterSelectPathFetch(st, k, elems) ==
  LET k2 == [k EXCEPT !.kind = "selectChildren", !.acc = elems]
      st1 == GetNodes(st, ConcatChildren(elems), FALSE, k.ax, FALSE, k2)
  IN  IF Issued(st, st1) THEN st1 ELSE AfterSelectChildrenFetch(st1, k2, <<>>)

\* onSelectResultsRecieved(path, ax), getNodesAndDirectChildren included
onSelectResultsRecieved(st, path, ax) ==
  LET k == [NoK EXCEPT !.kind = "selectPath", !.ax = ax, !.given = path]
      st1 == GetNodes(st, path, FALSE, ax, FALSE, k)
  IN  IF Issued(st, st1) THEN st1 ELSE AfterSelectPathFetch(st1, k, <<>>)

(***************************************************************************)
(* Search.                                                                 *)
(***************************************************************************)
NoSearchResults == [matches |-> {}, query |-> NullQuery]

Leaf(id, isMatch) ==
  [id |-> id, isMatch |-> isMatch, element |-> RemoteElement(id, FALSE)]

Inner(id, isMatch, children) ==
  [ id |-> id, isMatch |-> isMatch, children |-> children,
    element |-> RemoteElement(id, FALSE) ]

\* a result entry that lacks its element
Bare(id, isMatch) == [id |-> id, isMatch |-> isMatch]

\* tree.element of an entry without one
Undefined == [undefined |-> TRUE]

\* getSearchResults on the remote side: the tree of the paths to the matches,
\* or null (the empty record) when nothing matches; "bad" is answered with a
\* tree one entry of which lacks its element.  In the chain hierarchy "foo"
\* matches node 4 and nothing else matches.
RemoteSearch(query) ==
  CASE world = "chain" /\ query = "foo" ->
         Inner(1, FALSE, <<Inner(2, FALSE, <<Inner(3, FALSE, <<Leaf(4, TRUE)>>)>>)>>)
    [] world = "chain" /\ query # "foo" -> <<>>
    [] query = "foo" -> Inner(1, FALSE, <<Inner(2, FALSE, <<Leaf(4, TRUE)>>)>>)
    [] query = "bar" -> Inner(1, FALSE, <<Inner(3, TRUE, <<Leaf(5, TRUE)>>)>>)
    [] query = "bad" -> Inner(1, FALSE, <<Bare(3, TRUE),
                                          Inner(2, FALSE, <<Leaf(4, TRUE)>>)>>)
    [] OTHER -> <<>>

RECURSIVE getElementsFromSearchResultTree(_)
RECURSIVE FlattenChildren(_)

getElementsFromSearchResultTree(tree) ==
  IF "id" \notin DOMAIN tree THEN <<>>
  ELSE << [ id |-> tree.id, isMatch |-> tree.isMatch,
            hasChildren |-> "children" \in DOMAIN tree,
            element |-> IF "element" \in DOMAIN tree
                          THEN tree.element ELSE Undefined ] >>
       \o (IF "children" \in DOMAIN tree
             THEN FlattenChildren(tree.children) ELSE <<>>)

FlattenChildren(children) ==
  IF children = <<>> THEN <<>>
  ELSE getElementsFromSearchResultTree(Head(children))
       \o FlattenChildren(Tail(children))

\* elements.filter(x => x.hasChildren).map(x => x.element.id)
IdsToExpand(flat) ==
  LET withChildren == SelectSeq(flat, LAMBDA x : x.hasChildren)
  IN  [i \in 1..Len(withChildren) |-> withChildren[i].element.id]

Matches(flat) ==
  {flat[i].element.id : i \in {j \in 1..Len(flat) : flat[j].isMatch}}

\* a faulty variant: any response ends the search that is outstanding
AnyResponseClears(outstanding, query) == NullQuery

\* a faulty variant: no response ends the search that is outstanding
NoResponseClears(outstanding, query) == outstanding

\* outstandingSearchQuery after the response for `query`
OutstandingAfter(outstanding, query) ==
  IF query = outstanding THEN NullQuery ELSE outstanding

\* the two dispatches of displaySearchResults; x.element.id throws for an
\* entry with children and no element, before anything is dispatched
SearchMerge(st, flat) ==
  IF \E i \in 1..Len(flat) : flat[i].hasChildren /\ "id" \notin DOMAIN flat[i].element
    THEN [st EXCEPT !.threw = TRUE]
  ELSE LET st1 == UpdateElements(st, [i \in 1..Len(flat) |-> flat[i].element])
       IN  IF st1.threw THEN st1 ELSE ExpandElements(st1, IdsToExpand(flat))

(***************************************************************************)
(* Actions.                                                                *)
(***************************************************************************)
\* what the observer lastEvent records of a step
Event(op, key, flag, q, before, hit) ==
  [op |-> op, key |-> key, flag |-> flag, q |-> q, before |-> before, hit |-> hit]

Commit(st) ==
  /\ elements' = st.elements
  /\ AXelements' = st.AXelements
  /\ AXfocused' = st.AXfocused
  /\ AXtoNonAXMapping' = st.AXtoNonAXMapping
  /\ initialised' = st.initialised
  /\ AXinitialised' = st.AXinitialised
  /\ fetches' = st.fetches
  /\ invDone' = st.invDone
  /\ deepOps' = st.deepOps

\* a handler started by the UI or by a notification
Handle(st) ==
  /\ Commit(st)
  /\ inflight' = st.waiting \o st.calls
  /\ ops' = ops + 1

\* the callback of the call inflight[i]
Resume(st) ==
  /\ Commit(st)
  /\ inflight' = st.waiting \o st.calls
  /\ ops' = ops

CanHandle == started /\ ops < limit /\ Len(inflight) < MaxInflight

\* the ids shown in an inspector: render() shows a tree once it is initialised
VisibleKeys ==
  (IF initialised THEN DOMAIN elements ELSE {})
    \cup (IF AXinitialised /\ inAXMode THEN DOMAIN AXelements ELSE {})

RemoteCall(name, ax, query, k) ==
  [ call |-> name, ax |-> ax, ids |-> <<>>, forFocusEvent |-> FALSE,
    query |-> query, k |-> k ]

NoSearch == [query |-> NullQuery, n |-> 0, answered |-> FALSE]

NoMerge ==
  [ phase |-> "none", ax |-> FALSE, forFocusEvent |-> FALSE, batch |-> <<>>,
    before |-> EmptyStore ]

InitIn(w, n) ==
  /\ elements = EmptyStore
  /\ AXelements = EmptyStore
  /\ root = Null
  /\ AXroot = Null
  /\ initialised = FALSE
  /\ AXinitialised = FALSE
  /\ selected = Null
  /\ AXselected = Null
  /\ AXfocused = Null
  /\ inAXMode = FALSE
  /\ AXtoNonAXMapping = EmptyStore
  /\ searchResults = NoSearchResults
  /\ outstandingSearchQuery = NullQuery
  /\ highlighted = Null
  /\ inflight = <<>>
  /\ started = FALSE
  /\ axEnabled \in BOOLEAN
  /\ world = w
  /\ limit = n
  /\ remoteFocus = Null
  /\ ops = 0
  /\ fetches = [ax \in BOOLEAN |-> <<>>]
  /\ invDone = [ax |-> FALSE, given |-> <<>>, hist |-> <<>>]
  /\ deepOps = [ax \in BOOLEAN |-> 0]
  /\ lastEvent = Event("none", Null, FALSE, NullQuery, Null, FALSE)
  /\ merged = NoMerge
  /\ submitted = NoSearch
  /\ failed = 0

\* init(), and initAX() when axEnabled()
Start ==
  /\ ~started
  /\ started' = TRUE
  /\ inflight' =
       <<RemoteCall("getRoot", FALSE, "", [NoK EXCEPT !.kind = "getRoot"])>>
       \o (IF axEnabled
             THEN <<RemoteCall("getAXRoot", TRUE, "",
                               [NoK EXCEPT !.kind = "getRoot", !.ax = TRUE])>>
             ELSE <<>>)
  /\ lastEvent' = Event("init", Null, FALSE, NullQuery, Null, FALSE)
  /\ UNCHANGED << elements, AXelements, root, AXroot, initialised, AXinitialised,
                  selected, AXselected, AXfocused, inAXMode, AXtoNonAXMapping,
                  searchResults, outstandingSearchQuery, highlighted, conf, submitted, failed, remoteFocus,
                  ops, fetches, invDone, deepOps >>

\* the .then of getRoot / getAXRoot
RespondGetRoot(i) ==
  /\ inflight[i].k.kind = "getRoot"
  /\ \E st \in {performInitialExpand(
                    DispatchUpdate(After(i), <<RemoteElement(1, inflight[i].ax)>>,
                                   inflight[i].ax),
                    RemoteElement(1, inflight[i].ax), inflight[i].ax)} :
       LET ax == inflight[i].ax
           element == RemoteElement(1, ax)
       IN  /\ Resume(st)
           /\ root' = IF ax THEN root ELSE element.id
           /\ AXroot' = IF ax THEN element.id ELSE AXroot
           /\ lastEvent' = Event("root", element.id, ax, NullQuery, Null, FALSE)
  /\ UNCHANGED << selected, AXselected, inAXMode, searchResults,
                  outstandingSearchQuery, highlighted, started, conf, submitted, failed, remoteFocus >>

RespondInitialExpand(i) ==
  /\ inflight[i].k.kind = "initialExpand"
  /\ \E st \in {AfterInitialExpandFetch(After(i), inflight[i].k.children,
                                        RemoteGetNodes(inflight[i].ids, inflight[i].ax),
                                        inflight[i].ax)} :
       LET c == inflight[i]
       IN  /\ Resume(st)
           /\ lastEvent' = Event("initialExpand", c.k.key, c.ax, NullQuery, Null, FALSE)
  /\ UNCHANGED << root, AXroot, selected, AXselected, inAXMode, searchResults,
                  outstandingSearchQuery, highlighted, started, conf, submitted, failed, remoteFocus >>

RespondSetExpanded(i) ==
  /\ inflight[i].k.kind = "setExpanded"
  /\ LET c == inflight[i]
         st == AfterExpandFetch(After(i), c.k, RemoteGetNodes(c.ids, c.ax))
     IN  /\ Resume(st)
         /\ lastEvent' = Event("expanded", c.k.key, c.ax, NullQuery, Null, FALSE)
  /\ UNCHANGED << root, AXroot, selected, AXselected, inAXMode, searchResults,
                  outstandingSearchQuery, highlighted, started, conf, submitted, failed, remoteFocus >>

RespondInvalidate(i) ==
  /\ inflight[i].k.kind = "invalidate"
  /\ \E st \in {AfterInvalidateFetch(After(i), inflight[i],
                                      RemoteGetNodes(inflight[i].ids, inflight[i].ax))} :
     LET c == inflight[i]
     IN  /\ Resume(st)
         /\ lastEvent' = Event(IF Len(st.calls) = 0 THEN "invalidated" ELSE "invalidating",
                               Null, c.ax, NullQuery, Null, FALSE)
  /\ UNCHANGED << root, AXroot, selected, AXselected, inAXMode, searchResults,
                  outstandingSearchQuery, highlighted, started, conf, submitted, failed, remoteFocus >>

RespondFocus(i) ==
  /\ inflight[i].k.kind = "focus"
  /\ LET c == inflight[i]
         elems == RemoteGetNodes(c.ids, TRUE)
     IN  /\ Resume(UpdateAXElements(After(i), elems, TRUE))
         /\ lastEvent' = Event("focusMerged", Null, c.k.flag, NullQuery, c.k.before,
                               \E j \in 1..Len(elems) : IsFocused(elems[j]))
  /\ UNCHANGED << root, AXroot, selected, AXselected, inAXMode, searchResults,
                  outstandingSearchQuery, highlighted, started, conf, submitted, failed, remoteFocus >>

RespondSelect(i) ==
  /\ inflight[i].k.kind = "select"
  /\ LET c == inflight[i]
     IN  /\ Resume(DispatchUpdate(After(i), RemoteGetNodes(c.ids, c.ax), c.ax))
         /\ lastEvent' = Event("refreshed", c.ids[1], c.ax, NullQuery, Null, FALSE)
  /\ UNCHANGED << root, AXroot, selected, AXselected, inAXMode, searchResults,
                  outstandingSearchQuery, highlighted, started, conf, submitted, failed, remoteFocus >>

\* displaySearchResults(response)
RespondSearch(i) ==
  /\ inflight[i].k.kind = "search"
  /\ LET query == inflight[i].query
         flat == getElementsFromSearchResultTree(RemoteSearch(query))
         st == SearchMerge(After(i), flat)
     IN  /\ Resume(st)
         /\ IF st.threw
              THEN /\ UNCHANGED << searchResults, outstandingSearchQuery, submitted >>
                   /\ lastEvent' = Event("searchFailed", Null, FALSE, query, Null, FALSE)
              ELSE /\ searchResults' = [matches |-> Matches(flat), query |-> query]
                   /\ outstandingSearchQuery' =
                        OutstandingAfter(outstandingSearchQuery, query)
                   /\ submitted' =
                        [submitted EXCEPT !.answered = @ \/ query = submitted.query]
                   /\ lastEvent' =
                        Event("searchResponse", Null, FALSE, query, Null, FALSE)
  /\ UNCHANGED << root, AXroot, selected, AXselected, inAXMode, highlighted,
                  started, conf, failed, remoteFocus >>

OnElementExpanded(key, deep) ==
  /\ CanHandle
  /\ key \in VisibleKeys
  /\ Handle(onElementExpanded(Here, key, deep))
  /\ lastEvent' = Event(IF deep THEN "deepExpand" ELSE "expand", key, deep,
                        NullQuery, Null, FALSE)
  /\ UNCHANGED << root, AXroot, selected, AXselected, inAXMode, searchResults,
                  outstandingSearchQuery, highlighted, started, conf, submitted, failed, remoteFocus >>

\* the 'invalidate' / 'invalidateAX' notification
Invalidate(ids, ax) ==
  /\ CanHandle
  /\ ax => axEnabled
  /\ Handle(invalidate(Here, ids, ax, [NoK EXCEPT !.given = ids]))
  /\ lastEvent' = Event(IF Len(ids) = 0 THEN "invalidated" ELSE "invalidating",
                        Null, ax, NullQuery, Null, FALSE)
  /\ UNCHANGED << root, AXroot, selected, AXselected, inAXMode, searchResults,
                  outstandingSearchQuery, highlighted, started, conf, submitted, failed, remoteFocus >>

\* the debounced onElementSelected firing for selectedKey
OnElementSelected(selectedKey) ==
  /\ CanHandle
  /\ selectedKey \in VisibleKeys
  /\ LET keys == getKeysFromSelected(elements, AXtoNonAXMapping, selectedKey)
     IN  /\ selected' = keys.key
         /\ AXselected' = keys.AXkey
         /\ highlighted' = selectedKey
         /\ Handle(SelectFetches(Here, keys))
  /\ lastEvent' = Event("select", selectedKey, FALSE, NullQuery, Null, FALSE)
  /\ UNCHANGED << root, AXroot, inAXMode, searchResults, outstandingSearchQuery,
                  started, conf, submitted, failed, remoteFocus >>

\* search(query): nothing happens for the empty query
Search(query) ==
  /\ CanHandle
  /\ IF query = ""
       THEN /\ Handle(Here)
            /\ UNCHANGED << outstandingSearchQuery, submitted >>
       ELSE /\ Handle([Here EXCEPT !.calls =
                         <<RemoteCall("getSearchResults", FALSE, query,
                                      [NoK EXCEPT !.kind = "search",
                                                  !.count = ops + 1])>>])
            /\ outstandingSearchQuery' = query
            /\ submitted' = [query |-> query, n |-> ops + 1, answered |-> FALSE]
  /\ lastEvent' = Event("search", Null, FALSE, query, Null, FALSE)
  /\ UNCHANGED << root, AXroot, selected, AXselected, inAXMode, searchResults,
                  highlighted, started, conf, failed, remoteFocus >>

\* the 'axFocusEvent' notification; the remote focus is what the app changed
AxFocusEvent(isFocus, focus) ==
  /\ CanHandle
  /\ axEnabled
  /\ isFocus <=> focus # Null
  /\ remoteFocus' = focus
  /\ LET st == axFocusEvent(Here, isFocus)
     IN  /\ Handle(st)
         /\ lastEvent' = Event(IF Len(st.calls) = 0 THEN "focusMerged" ELSE "focusEvent",
                               Null, isFocus, NullQuery, AXfocused, FALSE)
  /\ UNCHANGED << root, AXroot, selected, AXselected, inAXMode, searchResults,
                  outstandingSearchQuery, highlighted, started, conf, submitted, failed >>

\* what SelectElement and setHighlighted of the callback leave in the state
Shown(st) ==
  /\ selected' = IF st.shown.ran /\ st.shown.select THEN st.shown.key ELSE selected
  /\ AXselected' = IF st.shown.ran /\ st.shown.select THEN st.shown.AXkey ELSE AXselected
  /\ highlighted' = IF st.shown.ran THEN st.shown.id ELSE highlighted

\* the 'select' / 'selectAX' notification
SelectNotification(path, ax) ==
  /\ CanHandle
  /\ ax => axEnabled
  /\ LET st == onSelectResultsRecieved(Here, path, ax)
     IN  /\ Handle(st)
         /\ Shown(st)
         /\ lastEvent' = Event(IF st.shown.ran THEN "selected" ELSE "selecting",
                               path[Len(path)], ax, NullQuery, Null, FALSE)
  /\ UNCHANGED << root, AXroot, inAXMode, searchResults, outstandingSearchQuery,
                  started, conf, submitted, failed, remoteFocus >>

\* a getNodes call of getNodesAndDirectChildren answers
RespondSelectPath(i) ==
  /\ inflight[i].k.kind \in {"selectPath", "selectChildren"}
  /\ LET c == inflight[i]
         elems == RemoteGetNodes(c.ids, c.ax)
         st == IF c.k.kind = "selectPath"
                 THEN AfterSelectPathFetch(After(i), c.k, elems)
                 ELSE AfterSelectChildrenFetch(After(i), c.k, elems)
     IN  /\ Resume(st)
         /\ Shown(st)
         /\ lastEvent' = Event(IF st.shown.ran THEN "selected" ELSE "selecting",
                               c.k.given[Len(c.k.given)], c.ax, NullQuery, Null, FALSE)
  /\ UNCHANGED << root, AXroot, inAXMode, searchResults, outstandingSearchQuery,
                  started, conf, submitted, failed, remoteFocus >>

\* client.call rejects for the call inflight[i]: the promise chain built on it
\* has .then callbacks for success alone, so none of them runs and what the
\* chain had fetched so far is dropped with it
Fail(i) ==
  /\ failed < MaxFailures
  /\ failed' = failed + 1
  /\ inflight' = After(i).waiting
  /\ lastEvent' = Event("failed", inflight[i].k.key, inflight[i].ax,
                        inflight[i].query, Null, FALSE)
  /\ UNCHANGED << elements, AXelements, root, AXroot, initialised, AXinitialised,
                  selected, AXselected, AXfocused, inAXMode, AXtoNonAXMapping,
                  searchResults, outstandingSearchQuery, highlighted, started,
                  conf, submitted, remoteFocus, ops, fetches, invDone, deepOps >>

OnToggleAccessibility ==
  /\ CanHandle
  /\ axEnabled
  /\ inAXMode' = ~inAXMode
  /\ Handle(Here)
  /\ lastEvent' = Event("toggleAX", Null, ~inAXMode, NullQuery, Null, FALSE)
  /\ UNCHANGED << root, AXroot, selected, AXselected, searchResults,
                  outstandingSearchQuery, highlighted, started, conf, submitted, failed, remoteFocus >>

(***************************************************************************)
(* Specifications.                                                         *)
(***************************************************************************)
\* paths of click-to-inspect notifications: the root down to the node found
SelectPaths == {<<1, 2, 4>>, <<1, 3>>}

PushIds == {<<>>, <<2, 3>>, <<1, 4>>} \cup {<<id>> : id \in RemoteIds}

Respond(i) ==
  \/ RespondGetRoot(i)
  \/ RespondInitialExpand(i)
  \/ RespondSetExpanded(i)
  \/ RespondInvalidate(i)
  \/ RespondFocus(i)
  \/ RespondSelect(i)
  \/ RespondSearch(i)
  \/ RespondSelectPath(i)

\* every handler, with every remote call answered (rejected calls: SpecFail)
Init == InitIn("tree", MaxOps)

Next ==
  \/ Start
  \/ \E i \in 1..Len(inflight) : Respond(i)
  \/ \E key \in RemoteIds, deep \in BOOLEAN : OnElementExpanded(key, deep)
  \/ \E ids \in PushIds, ax \in BOOLEAN : Invalidate(ids, ax)
  \/ \E key \in RemoteIds : OnElementSelected(key)
  \/ \E path \in SelectPaths, ax \in BOOLEAN : SelectNotification(path, ax)
  \/ \E query \in Queries \cup {""} : Search(query)
  \/ \E isFocus \in BOOLEAN, focus \in RemoteIds \cup {Null} :
       AxFocusEvent(isFocus, focus)
  \/ OnToggleAccessibility

Spec == Init /\ [][Next]_vars

\* the initial fetches of init() and initAX()
Load(i) == RespondGetRoot(i) \/ RespondInitialExpand(i)

\* expanding and collapsing
InitFetch == InitIn("tree", FetchOps)

NextFetch ==
  \/ Start
  \/ \E i \in 1..Len(inflight) : Load(i)
  \/ \E i \in 1..Len(inflight) : RespondSetExpanded(i)
  \/ \E key \in RemoteIds : OnElementExpanded(key, FALSE)

SpecFetch == InitFetch /\ [][NextFetch]_vars

\* invalidate notifications on a tree the user expands and collapses
InitInvalidate == InitIn("tree", InvalidateOps) /\ ~axEnabled

NextInvalidate ==
  \/ Start
  \/ \E i \in 1..Len(inflight) : Load(i)
  \/ \E i \in 1..Len(inflight) : RespondSetExpanded(i)
  \/ \E i \in 1..Len(inflight) : RespondInvalidate(i)
  \/ \E key \in RemoteIds : OnElementExpanded(key, FALSE)
  \/ \E ids \in PushIds : Invalidate(ids, FALSE)

SpecInvalidate == InitInvalidate /\ [][NextInvalidate]_vars

\* invalidations whose requests are answered in the end
InitInvalidateLive == InitIn("tree", LiveOps) /\ ~axEnabled

LivePushIds == {<<>>, <<1>>, <<2, 3>>}

NextInvalidateLive ==
  \/ Start
  \/ \E i \in 1..Len(inflight) : Load(i)
  \/ \E i \in 1..Len(inflight) : RespondSetExpanded(i)
  \/ \E i \in 1..Len(inflight) : RespondInvalidate(i)
  \/ \E key \in RemoteIds : OnElementExpanded(key, FALSE)
  \/ \E ids \in LivePushIds : Invalidate(ids, FALSE)

SpecInvalidateLive ==
  /\ InitInvalidateLive
  /\ [][NextInvalidateLive]_vars
  /\ WF_vars(\E i \in 1..Len(inflight) : RespondInvalidate(i))

\* the initial expansion of the chain, with invalidate and select notifications
\* and searches arriving meanwhile; every call of the initial chain is answered
\* in the end
InitInitLive == InitIn("chain", LiveOps) /\ ~axEnabled

LivePaths == {<<1, 2, 3>>, <<1, 2, 3, 4, 5>>}

LiveQueries == {"foo"}

NextInitLive ==
  \/ Start
  \/ \E i \in 1..Len(inflight) : Load(i)
  \/ \E i \in 1..Len(inflight) : RespondInvalidate(i)
  \/ \E i \in 1..Len(inflight) : RespondSelectPath(i)
  \/ \E i \in 1..Len(inflight) : RespondSearch(i)
  \/ \E ids \in LivePushIds \ {<<>>} : Invalidate(ids, FALSE)
  \/ \E path \in LivePaths : SelectNotification(path, FALSE)
  \/ \E query \in LiveQueries : Search(query)

\* a call of the initial chain is unanswered: exactly then a Load step is
\* possible, and every Load step changes inflight
LoadPending ==
  \E i \in 1..Len(inflight) : inflight[i].k.kind \in {"getRoot", "initialExpand"}

\* weak fairness of the answers to the initial chain,
\* WF_vars(\E i \in 1..Len(inflight) : Load(i)), with ENABLED of the action
\* written as LoadPending
SpecInitLive ==
  /\ InitInitLive
  /\ [][NextInitLive]_vars
  /\ ([]<>~LoadPending \/ []<><<\E i \in 1..Len(inflight) : Load(i)>>_vars)

\* invalidations and expansions whose remote calls can be rejected
InitFail == InitIn("tree", FailOps) /\ ~axEnabled

NextFail ==
  \/ Start
  \/ \E i \in 1..Len(inflight) : Load(i)
  \/ \E i \in 1..Len(inflight) : RespondSetExpanded(i)
  \/ \E i \in 1..Len(inflight) : RespondInvalidate(i)
  \/ \E i \in 1..Len(inflight) : Fail(i)
  \/ \E key \in RemoteIds : OnElementExpanded(key, FALSE)
  \/ \E ids \in PushIds : Invalidate(ids, FALSE)

SpecFail == InitFail /\ [][NextFail]_vars

\* selection, with and without accessibility support
InitSelect == InitIn("tree", SelectOps)

NextSelect ==
  \/ Start
  \/ \E i \in 1..Len(inflight) : Load(i)
  \/ \E i \in 1..Len(inflight) : RespondSetExpanded(i)
  \/ \E i \in 1..Len(inflight) : RespondSelect(i)
  \/ \E key \in RemoteIds : OnElementExpanded(key, FALSE)
  \/ \E key \in RemoteIds : OnElementSelected(key)

SpecSelect == InitSelect /\ [][NextSelect]_vars

\* selections in either inspector, with the accessibility overlay switched on
\* and off
InitCorrelate == InitIn("tree", CorrelateOps)

NextCorrelate ==
  \/ Start
  \/ \E i \in 1..Len(inflight) : Load(i)
  \/ \E i \in 1..Len(inflight) : RespondSetExpanded(i)
  \/ \E i \in 1..Len(inflight) : RespondSelect(i)
  \/ \E key \in RemoteIds : OnElementExpanded(key, FALSE)
  \/ \E key \in RemoteIds : OnElementSelected(key)
  \/ inflight = <<>> /\ OnToggleAccessibility

SpecCorrelate == InitCorrelate /\ [][NextCorrelate]_vars

\* searches on a tree the user expands and collapses
InitSearch == InitIn("tree", SearchOps) /\ ~axEnabled

NextSearch ==
  \/ Start
  \/ \E i \in 1..Len(inflight) : Load(i)
  \/ \E i \in 1..Len(inflight) : RespondSetExpanded(i)
  \/ \E i \in 1..Len(inflight) : RespondSearch(i)
  \/ \E key \in RemoteIds : OnElementExpanded(key, FALSE)
  \/ \E query \in Queries \cup {""} : Search(query)

SpecSearch == InitSearch /\ [][NextSearch]_vars

\* focus events on the accessibility tree
InitFocus == InitIn("tree", FocusOps) /\ axEnabled

NextFocus ==
  \/ Start
  \/ \E i \in 1..Len(inflight) : Load(i)
  \/ \E i \in 1..Len(inflight) : RespondFocus(i)
  \/ \E isFocus \in BOOLEAN, focus \in RemoteIds \cup {Null} :
       AxFocusEvent(isFocus, focus)

SpecFocus == InitFocus /\ [][NextFocus]_vars

\* the initial expansion of a chain
InitChain == InitIn("chain", InitOps)

NextChain ==
  \/ Start
  \/ \E i \in 1..Len(inflight) : Load(i)
  \/ \E i \in 1..Len(inflight) : RespondSetExpanded(i)
  \/ \E key \in RemoteIds : OnElementExpanded(key, FALSE)

SpecInit == InitChain /\ [][NextChain]_vars

\* expanding and collapsing with the accessibility overlay, on the hierarchy
\* that has wrapper nodes below the initially loaded ones
InitWrap == InitIn("wide", WrapOps)

NextWrap ==
  \/ Start
  \/ \E i \in 1..Len(inflight) : Load(i)
  \/ \E i \in 1..Len(inflight) : RespondSetExpanded(i)
  \/ \E key \in RemoteIds : OnElementExpanded(key, FALSE)
  \/ OnToggleAccessibility

SpecWrap == InitWrap /\ [][NextWrap]_vars

\* an invalidation of the accessibility root racing with the refetches of
\* focus events, once the accessibility tree is loaded: every chain fetches
\* node 1, and the remote records change with the focus
InitOverlap == InitIn("tree", OverlapOps) /\ axEnabled

NextOverlap ==
  \/ Start
  \/ \E i \in 1..Len(inflight) : Load(i)
  \/ \E i \in 1..Len(inflight) : RespondInvalidate(i)
  \/ \E i \in 1..Len(inflight) : RespondFocus(i)
  \/ AXinitialised /\ Invalidate(<<1>>, TRUE)
  \/ \E focus \in RemoteIds : AXinitialised /\ AxFocusEvent(TRUE, focus)

SpecOverlap == InitOverlap /\ [][NextOverlap]_vars

\* click-to-inspect notifications and searches on trees the user expands
InitStore == InitIn("tree", StoreOps)

NextStore ==
  \/ Start
  \/ \E i \in 1..Len(inflight) : Load(i)
  \/ \E i \in 1..Len(inflight) : RespondSetExpanded(i)
  \/ \E i \in 1..Len(inflight) : RespondSelectPath(i)
  \/ \E i \in 1..Len(inflight) : RespondSearch(i)
  \/ \E key \in RemoteIds : OnElementExpanded(key, FALSE)
  \/ \E path \in SelectPaths, ax \in BOOLEAN : SelectNotification(path, ax)
  \/ \E query \in Queries : Search(query)

SpecStore == InitStore /\ [][NextStore]_vars

\* deep expansion of a small tree that the user has expanded and collapsed
\* before, one UI event at a time
InitDeepTree == InitIn("tree", DeepTreeOps) /\ ~axEnabled

NextDeepTree ==
  \/ Start
  \/ \E i \in 1..Len(inflight) : Load(i)
  \/ \E i \in 1..Len(inflight) : RespondSetExpanded(i)
  \/ \E key \in RemoteIds, deep \in BOOLEAN :
       inflight = <<>> /\ OnElementExpanded(key, deep)

SpecDeepTree == InitDeepTree /\ [][NextDeepTree]_vars

\* deep expansion of a wide tree, one UI event at a time
InitDeep == InitIn("wide", DeepOps)

NextDeep ==
  \/ Start
  \/ \E i \in 1..Len(inflight) : Load(i)
  \/ \E i \in 1..Len(inflight) : RespondSetExpanded(i)
  \/ \E key \in 1..MaxDeepKey : inflight = <<>> /\ OnElementExpanded(key, TRUE)
  \/ inflight = <<>> /\ OnToggleAccessibility

SpecDeep == InitDeep /\ [][NextDeep]_vars

(***************************************************************************)
(* The reducers UpdateElements and UpdateAXElements on their own: a store  *)
(* and a batch of records, partial ones included ($Shape<Element>), drawn  *)
(* from small sets, and the one step that merges the batch.                *)
(***************************************************************************)
MergeIds == {1, 2}

Info(linked, focused) ==
  [linkedAXNode |-> linked, focused |-> focused, nonAXWithAXChild |-> FALSE]

\* records a store can hold for an id: as fetched, then expanded or collapsed
StoredRecords(id) ==
  { [id |-> id, name |-> "View", children |-> <<3>>, extraInfo |-> Info(Null, FALSE)],
    [id |-> id, name |-> "View", children |-> <<3>>, extraInfo |-> Info(3, FALSE),
     expanded |-> TRUE],
    [id |-> id, name |-> "View", children |-> <<>>, extraInfo |-> Info(Null, TRUE),
     expanded |-> FALSE] }

Stores ==
  UNION { {s \in [D -> UNION {StoredRecords(id) : id \in D}] :
             \A id \in D : s[id].id = id} : D \in SUBSET MergeIds }

\* incoming records: partial ones, and a full one
IncomingRecords ==
  UNION { { [id |-> id, extraInfo |-> Info(Null, TRUE)],
            [id |-> id, name |-> "Text"],
            [id |-> id, name |-> "View", children |-> <<4>>,
             extraInfo |-> Info(3, FALSE)] } : id \in MergeIds \cup {3} }

Batches == UNION {[1..n -> IncomingRecords] : n \in 1..MaxBatch}

InitMerge ==
  /\ elements \in Stores
  /\ AXelements \in Stores
  /\ AXfocused \in {Null} \cup MergeIds
  /\ AXfocused # Null => AXfocused \in DOMAIN AXelements
  /\ merged \in [ phase : {"pending"}, ax : BOOLEAN, forFocusEvent : BOOLEAN,
                   batch : Batches, before : {EmptyStore} ]
  /\ merged.forFocusEvent => merged.ax
  /\ IF merged.ax THEN elements = EmptyStore ELSE AXelements = EmptyStore
  /\ ~merged.ax => AXfocused = Null
  /\ root = Null
  /\ AXroot = Null
  /\ initialised = FALSE
  /\ AXinitialised = FALSE
  /\ selected = Null
  /\ AXselected = Null
  /\ inAXMode = FALSE
  /\ AXtoNonAXMapping = EmptyStore
  /\ searchResults = NoSearchResults
  /\ outstandingSearchQuery = NullQuery
  /\ highlighted = Null
  /\ inflight = <<>>
  /\ started = TRUE
  /\ axEnabled = TRUE
  /\ world = "tree"
  /\ limit = 0
  /\ remoteFocus = Null
  /\ ops = 0
  /\ fetches = [ax \in BOOLEAN |-> <<>>]
  /\ invDone = [ax |-> FALSE, given |-> <<>>, hist |-> <<>>]
  /\ deepOps = [ax \in BOOLEAN |-> 0]
  /\ lastEvent = Event("none", Null, FALSE, NullQuery, Null, FALSE)
  /\ submitted = NoSearch
  /\ failed = 0

\* dispatchAction({type: 'UpdateElements' | 'UpdateAXElements', elements, forFocusEvent})
ApplyUpdate ==
  /\ merged.phase = "pending"
  /\ Commit(IF merged.ax
              THEN UpdateAXElements(Here, merged.batch, merged.forFocusEvent)
              ELSE UpdateElements(Here, merged.batch))
  /\ merged' = [merged EXCEPT !.phase = "done",
                              !.before = StoreOf(Here, merged.ax)]
  /\ lastEvent' = Event("update", Null, merged.ax, NullQuery, AXfocused, FALSE)
  /\ UNCHANGED << root, AXroot, selected, AXselected, inAXMode, searchResults,
                  outstandingSearchQuery, highlighted, inflight, started,
                  axEnabled, world, limit, remoteFocus, ops, submitted,
                  failed >>

SpecMerge == InitMerge /\ [][ApplyUpdate]_vars

(***************************************************************************)
(* Claims.                                                                 *)
(***************************************************************************)
\* an unforced getNodes sent exactly the ids of its argument that were no
\* keys of the store when it was called
SentUncached(f) ==
  f.sent = SelectSeq(f.arg, LAMBDA id : id \notin f.keys)

\* the last two getNodes invocations on a tree were unforced and had the same ids
SamePair(ax) ==
  /\ Len(fetches[ax]) = 2
  /\ fetches[ax][1].arg = fetches[ax][2].arg
  /\ ~fetches[ax][1].force
  /\ ~fetches[ax][2].force

\* C1: getNodes called unforced twice in a row with the same ids: the first
\* call requests only the ids that are no keys of the store, and the second
\* call issues no remote call.
C1_SecondFetchIssuesNoCall ==
  \A ax \in BOOLEAN :
    SamePair(ax) =>
      /\ SentUncached(fetches[ax][1])
      /\ fetches[ax][2].sent = <<>>

\* C1, amended: every unforced getNodes requests exactly the ids of its
\* argument that are no keys of the store when it is called; of two such calls
\* in a row with the same ids, the second requests only ids that are still
\* awaited from the remote side, so none once the first response is merged.
C1_FetchRequestsUncached ==
  \A ax \in BOOLEAN :
    /\ \A n \in 1..Len(fetches[ax]) :
         ~fetches[ax][n].force => SentUncached(fetches[ax][n])
    /\ SamePair(ax) =>
         SeqToSet(fetches[ax][2].sent) \subseteq fetches[ax][2].pending

\* the second of two equal unforced calls found everything cached
C1_SecondFetchCached ==
  \E ax \in BOOLEAN :
    /\ SamePair(ax)
    /\ fetches[ax][1].sent # <<>>
    /\ fetches[ax][2].sent = <<>>

\* C4: one invocation of deepExpandElement performs at most 100 expand
\* operations (setElementExpanded with expand = true), in either tree and
\* whatever the mode flags.
C4_DeepExpandBound ==
  \A ax \in BOOLEAN : deepOps[ax] <= DeepExpandCap

\* the records of the merged batch that carry the id
Incoming(id) ==
  {merged.batch[n] : n \in {m \in 1..Len(merged.batch) : merged.batch[m].id = id}}

MergedStore == IF merged.ax THEN AXelements ELSE elements

\* C2: after UpdateElements or UpdateAXElements merged a batch, every field of
\* a stored record that no incoming record for its id carries has its previous
\* value, and a record no incoming record names is unchanged.
C2_MergePreservesFields ==
  merged.phase = "done" =>
    \A id \in DOMAIN merged.before :
      /\ id \in DOMAIN MergedStore
      /\ \A f \in DOMAIN merged.before[id] :
           (\A e \in Incoming(id) : f \notin DOMAIN e) =>
             /\ f \in DOMAIN MergedStore[id]
             /\ MergedStore[id][f] = merged.before[id][f]
      /\ Incoming(id) = {} => MergedStore[id] = merged.before[id]

\* a partial record was merged over an expanded record with children
C2_PartialOverFull ==
  /\ merged.phase = "done"
  /\ \E id \in DOMAIN merged.before :
       /\ Incoming(id) # {}
       /\ \A e \in Incoming(id) : DOMAIN e = {"id", "extraInfo"}
       /\ "expanded" \in DOMAIN merged.before[id]
       /\ merged.before[id].expanded
       /\ merged.before[id].children = <<3>>
       /\ MergedStore[id].extraInfo.focused
       /\ ~merged.before[id].extraInfo.focused

\* the invalidations: the finished one, and those with a request in flight
\* (next: the ids of the request made after the levels of hist)
InvalidateRuns ==
  (IF invDone.hist # <<>>
     THEN {[ax |-> invDone.ax, given |-> invDone.given, hist |-> invDone.hist,
            next |-> <<>>]}
     ELSE {})
  \cup {[ax |-> inflight[i].ax, given |-> inflight[i].k.given,
         hist |-> inflight[i].k.hist, next |-> inflight[i].ids] :
          i \in {j \in 1..Len(inflight) : inflight[j].k.kind = "invalidate"}}

\* the children the remote reported for the nodes of a level that were
\* cached and expanded when the level's response arrived
ReportedChildren(level) ==
  ConcatChildren(SelectSeq(level.ret, LAMBDA e : e.id \in level.exp))

\* the requests of a run, in order
Requests(run) ==
  [n \in 1..(Len(run.hist) + 1) |->
     IF n <= Len(run.hist) THEN run.hist[n].req ELSE run.next]

\* C3: the ids invalidate requests are the given ids, and after each response
\* the remote-reported children of every returned node whose cached record
\* existed and was expanded, and no others; it stops when there are none.
C3_InvalidateReach ==
  \A run \in InvalidateRuns :
    /\ Requests(run)[1] = run.given
    /\ \A n \in 1..Len(run.hist) :
         /\ run.hist[n].ret = RemoteGetNodes(run.hist[n].req, run.ax)
         /\ Requests(run)[n + 1] = ReportedChildren(run.hist[n])
         /\ run.hist[n].req # <<>>

\* invalidate([1]) with 1 and 2 expanded and 3 collapsed has finished: it
\* requested 1, then 2 and 3, then 4, and never 5, the child of 3
C3_RootInvalidated ==
  /\ invDone.given = <<1>>
  /\ [n \in 1..Len(invDone.hist) |-> invDone.hist[n].req] = << <<1>>, <<2, 3>>, <<4>> >>
  /\ invDone.hist[2].exp = {2}
  /\ 3 \in DOMAIN elements /\ ~isExpanded(Here, 3, FALSE)
  /\ RemoteChildren(3, FALSE) = <<5>>

\* onElementSelected has just run for a main record that carries a link
SelectedLinked ==
  /\ lastEvent.op = "select"
  /\ axEnabled
  /\ lastEvent.key \in DOMAIN elements
  /\ LinkedAXNode(elements[lastEvent.key]) # Null

\* C5: with accessibility supported, selecting an id whose main record
\* carries a linked accessibility id selects that id in the main tree and the
\* linked id in the accessibility tree, whatever AXtoNonAXMapping holds.
C5_LinkedNodeFirst ==
  SelectedLinked =>
    /\ selected = lastEvent.key
    /\ AXselected = LinkedAXNode(elements[lastEvent.key])

\* node 2, linked to 5, is selected while the mapping sends 2 to 4
C5_ContraryMapping ==
  /\ SelectedLinked
  /\ lastEvent.key = 2
  /\ 2 \in DOMAIN AXtoNonAXMapping
  /\ AXtoNonAXMapping[2] = 4
  /\ selected = 2
  /\ AXselected = 5

\* this step is displaySearchResults handling the response for lastEvent'.q
SearchResponseStep ==
  /\ lastEvent'.op = "searchResponse"
  /\ inflight' # inflight

\* C6: the response for a query q makes the search state q's matches and q,
\* and clears outstandingSearchQuery exactly when q is the outstanding query
\* at that moment: a response for an earlier query leaves the later,
\* still outstanding query in place.
C6_StaleQuerySuppressed ==
  [][ SearchResponseStep =>
        /\ searchResults'.query = lastEvent'.q
        /\ searchResults'.matches =
             Matches(getElementsFromSearchResultTree(RemoteSearch(lastEvent'.q)))
        /\ outstandingSearchQuery' =
             (IF lastEvent'.q = outstandingSearchQuery
                THEN NullQuery ELSE outstandingSearchQuery) ]_vars

\* "foo" then "bar" were submitted and the response for "foo" has arrived:
\* its match is shown while "bar" is still outstanding
C6_FooAnsweredBarOutstanding ==
  /\ lastEvent.op = "searchResponse"
  /\ lastEvent.q = "foo"
  /\ searchResults = [matches |-> {4}, query |-> "foo"]
  /\ outstandingSearchQuery = "bar"
  /\ \E i \in 1..Len(inflight) :
       inflight[i].call = "getSearchResults" /\ inflight[i].query = "bar"

\* performInitialExpand of the main tree has just finished
InitialExpandDone ==
  /\ world = "chain"
  /\ lastEvent.op \in {"root", "initialExpand"}
  /\ ~lastEvent.flag
  /\ initialised

\* the main-tree nodes marked expanded
MarkedExpanded == {id \in DOMAIN elements : isExpanded(Here, id, FALSE)}

ResultIdsToExpand(q) ==
  SeqToSet(IdsToExpand(getElementsFromSearchResultTree(RemoteSearch(q))))

\* the ids of the flattened result nodes for the query q
ResultIds(q) ==
  SeqToSet(ElementIds(
    LET flat == getElementsFromSearchResultTree(RemoteSearch(q))
    IN  [i \in 1..Len(flat) |-> flat[i].element]))

ExpandedIn(store, id) ==
  IF "expanded" \in DOMAIN store[id] THEN store[id].expanded ELSE FALSE

\* C8 (as stated): a search response expands every flattened result node that
\* has children and changes the expanded flag of no other node of the main
\* store.
C8_OthersKeepExpanded ==
  [][ SearchResponseStep =>
        /\ \A id \in ResultIdsToExpand(lastEvent'.q) :
             id \in DOMAIN elements' /\ ExpandedIn(elements', id)
        /\ \A id \in DOMAIN elements \ ResultIdsToExpand(lastEvent'.q) :
             ExpandedIn(elements', id) = ExpandedIn(elements, id) ]_vars

\* C8 (amended): after a search response the expanded nodes of the main store
\* are exactly the flattened result nodes that have children: every other
\* node, in the result tree or not, is collapsed.
C8_ExactlyResultsExpanded ==
  [][ SearchResponseStep =>
        /\ DOMAIN elements' = DOMAIN elements \cup ResultIds(lastEvent'.q)
        /\ {id \in DOMAIN elements' : ExpandedIn(elements', id)}
             = ResultIdsToExpand(lastEvent'.q) ]_vars

\* the user expanded 3 (its child 5 is loaded) and the response for "foo",
\* whose result tree is 1 -> 2 -> 4, has arrived: 1 and 2 are expanded, 3 is
\* collapsed
C8_ExpandedNodeCollapsed ==
  /\ lastEvent.op = "searchResponse"
  /\ lastEvent.q = "foo"
  /\ ops = 2
  /\ {1, 2, 3, 4, 5} \subseteq DOMAIN elements
  /\ ExpandedIn(elements, 1)
  /\ ExpandedIn(elements, 2)
  /\ "expanded" \in DOMAIN elements[3]
  /\ ~elements[3].expanded

\* the merge that ends the handling of an axFocusEvent with isFocus = false
\* has just run, and no refetched node was focused (none refetched included)
FocusLostMerged ==
  /\ lastEvent.op = "focusMerged"
  /\ ~lastEvent.flag
  /\ ~lastEvent.hit

\* C9 (as stated): after that merge AXfocused equals its value before the
\* notification.
C9_FocusLostKeepsFocus ==
  FocusLostMerged => AXfocused = lastEvent.before

\* C9 (amended): after that merge AXfocused is null, whatever it was before;
\* when a refetched node is focused, AXfocused is a refetched, focused node.
C9_FocusLostResetsFocus ==
  /\ FocusLostMerged => AXfocused = Null
  /\ (lastEvent.op = "focusMerged" /\ lastEvent.hit) =>
       /\ AXfocused \in DOMAIN AXelements
       /\ IsFocused(AXelements[AXfocused])

\* node 2 was focused when the focus-lost notification came; its refetched
\* record is not focused, and AXfocused is null
C9_FocusCleared ==
  /\ FocusLostMerged
  /\ lastEvent.before = 2
  /\ AXfocused = Null
  /\ 2 \in DOMAIN AXelements
  /\ ~IsFocused(AXelements[2])

\* C10: every entry of AXtoNonAXMapping is kept, with its value, by every
\* step, and a step adds an entry a |-> m only when the main record m it has
\* merged carries the linked accessibility id a.
C10_MappingAppendOnly ==
  [][ /\ \A a \in DOMAIN AXtoNonAXMapping :
           /\ a \in DOMAIN AXtoNonAXMapping'
           /\ AXtoNonAXMapping'[a] = AXtoNonAXMapping[a]
      /\ \A a \in DOMAIN AXtoNonAXMapping' \ DOMAIN AXtoNonAXMapping :
           /\ AXtoNonAXMapping'[a] \in DOMAIN elements'
           /\ LinkedAXNode(elements'[AXtoNonAXMapping'[a]]) = a
           /\ elements' # elements ]_vars

\* 5 was mapped to 2, the first record to carry the link; record 3, which
\* links to 5 too, has been merged again since, and 5 is still mapped to 2
C10_SecondWriterIgnored ==
  /\ lastEvent.op = "refreshed"
  /\ lastEvent.key = 3
  /\ ~lastEvent.flag
  /\ LinkedAXNode(elements[3]) = 5
  /\ 5 \in DOMAIN AXtoNonAXMapping
  /\ AXtoNonAXMapping[5] = 2

\* C11: no step removes a key from elements or from AXelements, and no step
\* changes root or AXroot once it is set.
C11_StoresOnlyGrow ==
  [][ /\ DOMAIN elements \subseteq DOMAIN elements'
      /\ DOMAIN AXelements \subseteq DOMAIN AXelements'
      /\ root # Null => root' = root
      /\ AXroot # Null => AXroot' = AXroot ]_vars

\* a search response has rewritten the expanded flag of every key, and the
\* store still holds every node loaded before it, node 3 included
C11_KeysKeptAcrossSearch ==
  /\ lastEvent.op = "searchResponse"
  /\ lastEvent.q = "foo"
  /\ root = 1
  /\ {1, 2, 3, 4} \subseteq DOMAIN elements
  /\ ~ExpandedIn(elements, 3)

\* this step handles the response to a search whose result tree has an entry
\* without element
MalformedResponseStep ==
  /\ lastEvent'.op \in {"searchResponse", "searchFailed"}
  /\ inflight' # inflight
  /\ \E i \in 1..Len(inflight) :
       /\ inflight[i].call = "getSearchResults"
       /\ inflight[i].query = lastEvent'.q
  /\ \E x \in SeqToSet(getElementsFromSearchResultTree(RemoteSearch(lastEvent'.q))) :
       x.element = Undefined

\* the ids of the result entries that have an element
WellFormedIds(q) ==
  {x.id : x \in {y \in SeqToSet(getElementsFromSearchResultTree(RemoteSearch(q))) :
                   y.element # Undefined}}

\* C12: handling a search response one entry of which has no element does not
\* fail: the elements of the other entries are in the main store afterwards
\* and the search state is set from the response.
C12_MalformedEntrySkipped ==
  [][ MalformedResponseStep =>
        /\ lastEvent'.op = "searchResponse"
        /\ WellFormedIds(lastEvent'.q) \subseteq DOMAIN elements'
        /\ searchResults'.query = lastEvent'.q ]_vars

\* the response to the most recently submitted search has not arrived
LatestPending ==
  \E i \in 1..Len(inflight) :
    /\ inflight[i].call = "getSearchResults"
    /\ inflight[i].k.count = submitted.n

\* C13 (as stated): while the response to the most recently submitted query
\* has not arrived outstandingSearchQuery is that query, and it is null only
\* when no such response is pending.
C13_OutstandingWhilePending ==
  /\ LatestPending => outstandingSearchQuery = submitted.query
  /\ outstandingSearchQuery = NullQuery => ~LatestPending

\* C13 (amended): outstandingSearchQuery is the most recently submitted query
\* until a response carrying that query arrives, whichever submission it
\* answers, and null from then on (and before any search).
C13_OutstandingUntilAnswered ==
  outstandingSearchQuery =
    (IF submitted.n = 0 \/ submitted.answered THEN NullQuery ELSE submitted.query)

\* "foo" was submitted twice; the response to the first submission has
\* arrived and cleared outstandingSearchQuery while the second is pending
C13_ClearedByEarlierSubmission ==
  /\ submitted.query = "foo"
  /\ submitted.answered
  /\ LatestPending
  /\ outstandingSearchQuery = NullQuery
  /\ searchResults.query = "foo"

\* the calls a step has added to those in flight (a response removes one)
NewCalls(removed) ==
  SubSeq(inflight', Len(inflight) - removed + 1, Len(inflight'))

\* the children of a stored node that are no keys of the store
UnloadedChildren(store, key) ==
  SelectSeq(store[key].children, LAMBDA id : id \notin DOMAIN store)

\* what expandElement(key, ax) does to the tree ax, from store to store2, where
\* calls are the remote calls the step adds for that tree
Toggled(store, store2, key, calls) ==
  LET was == ExpandedIn(store, key)
      unloaded == UnloadedChildren(store, key)
  IN  /\ DOMAIN store2 = DOMAIN store
      /\ ExpandedIn(store2, key) = ~was
      /\ \A id \in DOMAIN store \ {key} : store2[id] = store[id]
      /\ \A f \in DOMAIN store[key] \ {"expanded"} : store2[key][f] = store[key][f]
      /\ calls = IF was \/ unloaded = <<>> THEN <<>> ELSE <<unloaded>>

\* the handler step of a toggle: each tree that holds the key is toggled, the
\* other is left alone
ToggleStep ==
  (lastEvent'.op = "expand" /\ ops' = ops + 1) =>
    LET key == lastEvent'.key
        new == NewCalls(0)
        idsFor(ax) == LET mine == SelectSeq(new, LAMBDA c : c.ax = ax)
                      IN  [n \in 1..Len(mine) |-> mine[n].ids]
    IN  /\ \A n \in 1..Len(new) : new[n].call = "getNodes"
        /\ IF key \in DOMAIN elements
             THEN Toggled(elements, elements', key, idsFor(FALSE))
             ELSE elements' = elements /\ idsFor(FALSE) = <<>>
        /\ IF key \in DOMAIN AXelements
             THEN Toggled(AXelements, AXelements', key, idsFor(TRUE))
             ELSE AXelements' = AXelements /\ idsFor(TRUE) = <<>>

\* this step is the callback of the children fetch inflight[i] of an expansion
ExpandResponseStep(i) ==
  /\ lastEvent'.op = "expanded"
  /\ inflight' # inflight
  /\ inflight[i].k.kind = "setExpanded"
  /\ inflight[i].k.key = lastEvent'.key
  /\ inflight[i].ax = lastEvent'.flag
  /\ Len(inflight') >= Len(inflight) - 1
  /\ SubSeq(inflight', 1, Len(inflight) - 1)
       = SubSeq(inflight, 1, i - 1) \o SubSeq(inflight, i + 1, Len(inflight))

\* C14 (as stated): a toggle flips the flag of the node; collapsing issues no
\* remote call, removes no entry and changes no other record; expanding issues
\* one cache-respecting fetch of the node's unloaded children and nothing else,
\* and the fetched records are merged when the response arrives.
C14_ToggleFetchesChildrenOnly ==
  [][ /\ ToggleStep
      /\ \A i \in 1..Len(inflight) :
           ExpandResponseStep(i) =>
             /\ SeqToSet(inflight[i].ids)
                  \subseteq DOMAIN (IF inflight[i].ax THEN AXelements' ELSE elements')
             /\ NewCalls(1) = <<>> ]_vars

\* the requests the callback of a children fetch adds in overlay mode: one
\* for each returned wrapper child that has unloaded children
RECURSIVE WrapperRequests(_, _)
WrapperRequests(elems, store) ==
  IF elems = <<>> THEN <<>>
  ELSE (IF IsWrapper(Head(elems)) /\ UnloadedChildren(store, Head(elems).id) # <<>>
          THEN <<UnloadedChildren(store, Head(elems).id)>> ELSE <<>>)
       \o WrapperRequests(Tail(elems), store)

\* C14 (amended): the same for the toggle itself; when the response arrives the
\* fetched records are merged and, on the main tree in overlay mode, every
\* returned wrapper child is expanded as well, with a fetch of its own
\* unloaded children; no other request is made.
C14_ToggleFetchesChildrenAndWrappers ==
  [][ /\ ToggleStep
      /\ \A i \in 1..Len(inflight) :
           ExpandResponseStep(i) =>
             LET c == inflight[i]
                 elems == RemoteGetNodes(c.ids, c.ax)
                 new == NewCalls(1)
                 store2 == IF c.ax THEN AXelements' ELSE elements'
             IN  /\ SeqToSet(c.ids) \subseteq DOMAIN store2
                 /\ [n \in 1..Len(new) |-> new[n].ids]
                      = (IF inAXMode /\ ~c.ax
                           THEN WrapperRequests(elems, store2) ELSE <<>>)
                 /\ \A n \in 1..Len(new) : new[n].call = "getNodes" /\ ~new[n].ax
                 /\ (inAXMode /\ ~c.ax) =>
                      \A n \in 1..Len(elems) :
                        IsWrapper(elems[n]) => ExpandedIn(elements', elems[n].id) ]_vars

\* in overlay mode node 3 was expanded; its children 4 and 5 have arrived and
\* the wrapper 5 is expanded, with the fetch of its children 6 and 7 in flight
C14_WrapperChildFetched ==
  /\ inAXMode
  /\ lastEvent.op = "expanded"
  /\ lastEvent.key = 3
  /\ ~lastEvent.flag
  /\ {4, 5} \subseteq DOMAIN elements
  /\ ExpandedIn(elements, 3)
  /\ \E i \in 1..Len(inflight) : inflight[i].ids = <<6, 7>> /\ inflight[i].k.key = 5

\* the children of a stored node that are loaded and flagged as wrappers
LoadedWrappers(store, key) ==
  {id \in SeqToSet(store[key].children) :
     id \in DOMAIN store /\ IsWrapper(store[id])}

\* the step has set the expanded flag of the main-tree node key
BecomesExpanded(key) ==
  /\ ExpandedIn(elements', key)
  /\ ~(key \in DOMAIN elements /\ ExpandedIn(elements, key))

\* C15: in overlay mode, whenever a toggle or the callback of a children fetch
\* expands a main-tree node, every child of that node that is flagged as a
\* wrapper is expanded too: the wrappers the fetch returns, and the wrappers
\* that were loaded before the node was expanded.  A wrapper expanded this way
\* is itself a node the step expands, which makes the rule recursive.
C15_WrappersExpanded ==
  [][ (inAXMode /\ lastEvent'.op \in {"expand", "expanded"}) =>
        /\ \A i \in 1..Len(inflight) :
             (ExpandResponseStep(i) /\ ~inflight[i].ax) =>
               \A id \in SeqToSet(inflight[i].ids) :
                 IsWrapper(elements'[id]) => ExpandedIn(elements', id)
        /\ \A key \in DOMAIN elements' :
             BecomesExpanded(key) =>
               \A id \in LoadedWrappers(elements', key) :
                 ExpandedIn(elements', id) ]_vars

\* the part of C15 that is about the wrappers a children fetch returns
C15_ReturnedWrappersExpanded ==
  [][ (inAXMode /\ lastEvent'.op = "expanded") =>
        \A i \in 1..Len(inflight) :
          (ExpandResponseStep(i) /\ ~inflight[i].ax) =>
            \A id \in SeqToSet(inflight[i].ids) :
              IsWrapper(elements'[id]) => ExpandedIn(elements', id) ]_vars

\* what deepExpandElement(key, ax) does to the tree ax of an expanded node,
\* from store to store2, where calls are the remote calls the step adds for
\* that tree
Collapsed(store, store2, key, calls) ==
  /\ DOMAIN store2 = DOMAIN store
  /\ ~ExpandedIn(store2, key)
  /\ \A id \in DOMAIN store \ {key} : store2[id] = store[id]
  /\ \A f \in DOMAIN store[key] \ {"expanded"} : store2[key][f] = store[key][f]
  /\ calls = <<>>

\* C16: a deep expand of a node that is expanded in a tree only sets the
\* expanded flag of that node in that tree to false: no remote call is issued
\* for the tree, no traversal runs, and every other record of the tree, the
\* flags of the descendants included, stays as it was.
C16_DeepExpandCollapses ==
  [][ (lastEvent'.op = "deepExpand" /\ ops' = ops + 1) =>
        LET key == lastEvent'.key
            new == NewCalls(0)
        IN  /\ (key \in DOMAIN elements /\ ExpandedIn(elements, key)) =>
                  /\ Collapsed(elements, elements', key,
                               SelectSeq(new, LAMBDA c : ~c.ax))
                  /\ deepOps'[FALSE] = deepOps[FALSE]
            /\ (key \in DOMAIN AXelements /\ ExpandedIn(AXelements, key)) =>
                  /\ Collapsed(AXelements, AXelements', key,
                               SelectSeq(new, LAMBDA c : c.ax))
                  /\ deepOps'[TRUE] = deepOps[TRUE] ]_vars

\* node 3 and the nodes below it were deep-expanded, then the deep expand of
\* the expanded root has collapsed the root alone: node 3 is still expanded
C16_RootCollapsedAlone ==
  /\ lastEvent.op = "deepExpand"
  /\ lastEvent.key = 1
  /\ inflight = <<>>
  /\ ~ExpandedIn(elements, 1)
  /\ ExpandedIn(elements, 3)
  /\ 5 \in DOMAIN elements
  /\ ExpandedIn(elements, 5)

\* the selected id has no main record, or its main record has no linked peer
NoLinkedPeer(id) ==
  id \notin DOMAIN elements \/ LinkedAXNode(elements[id]) = Null

\* C17: the ids a selection of selectedId resolves to.  Without accessibility
\* support: mainId = selectedId and axId = null.  With it, when the main
\* record of selectedId is missing or has no linked peer: if (the main record
\* is missing or is named ComponentHost) and AXtoNonAXMapping has an entry for
\* selectedId, then axId = selectedId and mainId = mapping[selectedId];
\* otherwise both are selectedId.  Resolving the ids changes neither store nor
\* the mapping.
C17_CorrelatorResult ==
  [][ (lastEvent'.op = "select" /\ ops' = ops + 1) =>
        LET id == lastEvent'.key
        IN  /\ elements' = elements
            /\ AXelements' = AXelements
            /\ AXtoNonAXMapping' = AXtoNonAXMapping
            /\ ~axEnabled => (selected' = id /\ AXselected' = Null)
            /\ (axEnabled /\ NoLinkedPeer(id)) =>
                 IF /\ \/ id \notin DOMAIN elements
                       \/ NameOf(elements[id]) = "ComponentHost"
                    /\ id \in DOMAIN AXtoNonAXMapping
                   THEN AXselected' = id /\ selected' = AXtoNonAXMapping[id]
                   ELSE AXselected' = id /\ selected' = id ]_vars

\* node 5 is selected in the accessibility tree before its main record has
\* arrived; the mapping sends 5 to 2, so 2 is selected in the main tree
C17_MappedFromAXTree ==
  /\ lastEvent.op = "select"
  /\ lastEvent.key = 5
  /\ axEnabled
  /\ 5 \notin DOMAIN elements
  /\ 5 \in DOMAIN AXtoNonAXMapping
  /\ selected = AXtoNonAXMapping[5]
  /\ selected = 2
  /\ AXselected = 5

\* the step removes the call inflight[i] and adds none
OnlyRemoves(i) ==
  inflight' = SubSeq(inflight, 1, i - 1) \o SubSeq(inflight, i + 1, Len(inflight))

\* the step is the rejection of the remote call inflight[i]
FailStep(i) ==
  /\ lastEvent'.op = "failed"
  /\ failed' = failed + 1
  /\ OnlyRemoves(i)

\* the step is the response to the request inflight[i] of an invalidation
InvalidateResponseStep(i) ==
  /\ lastEvent'.op \in {"invalidating", "invalidated"}
  /\ ops' = ops
  /\ inflight[i].k.kind = "invalidate"
  /\ SubSeq(inflight', 1, Len(inflight) - 1)
       = SubSeq(inflight, 1, i - 1) \o SubSeq(inflight, i + 1, Len(inflight))

\* C18: a rejected remote call ends its chain: no call is made in its place
\* and neither store, the mapping nor the initialisation flags change, so the
\* records an invalidation had fetched at earlier levels are never merged (a
\* level that succeeds merges nothing either, as long as a further level is
\* requested).  An invalidation whose last level is answered, whether or not
\* a call was rejected before, has all the ids it requested in the store.
C18_FailureMergesNothing ==
  [][ \A i \in 1..Len(inflight) :
        /\ FailStep(i) =>
             /\ elements' = elements
             /\ AXelements' = AXelements
             /\ AXtoNonAXMapping' = AXtoNonAXMapping
             /\ AXfocused' = AXfocused
             /\ initialised' = initialised
             /\ AXinitialised' = AXinitialised
             /\ ops' = ops
        /\ (InvalidateResponseStep(i) /\ lastEvent'.op = "invalidating") =>
             /\ Len(inflight') = Len(inflight)
             /\ elements' = elements
             /\ AXelements' = AXelements
        /\ (InvalidateResponseStep(i) /\ lastEvent'.op = "invalidated"
              /\ OnlyRemoves(i)) =>
             SeqToSet(ElementIds(inflight[i].k.acc)) \cup SeqToSet(inflight[i].ids)
               \subseteq DOMAIN (IF inflight[i].ax THEN AXelements' ELSE elements')
    ]_vars

\* invalidate([1, 4]) fetched 1 and the unloaded node 4, then the request for
\* the children 2 and 3 of the expanded node 1 was rejected: 4 is not merged
C18_SecondLevelRejected ==
  /\ lastEvent.op = "failed"
  /\ failed = 1
  /\ invDone.hist = <<>>
  /\ inflight = <<>>
  /\ 4 \notin DOMAIN elements
  /\ Len(fetches[FALSE]) = 2
  /\ fetches[FALSE][1].arg = <<1, 4>>
  /\ fetches[FALSE][2].arg = <<2, 3>>

\* the nodes below a node of the remote hierarchy
RECURSIVE Below(_, _)
Below(id, ax) ==
  LET children == SeqToSet(RemoteChildren(id, ax))
  IN  children \cup UNION {Below(c, ax) : c \in children}

\* the first node with two or more children on the way from id down the
\* first children (Null: the way ends at a leaf)
RECURSIVE FirstFork(_, _)
FirstFork(id, ax) ==
  LET children == RemoteChildren(id, ax)
  IN  IF Len(children) = 0 THEN Null
      ELSE IF Len(children) >= 2 THEN id
      ELSE FirstFork(children[1], ax)

\* C19: no step of performInitialExpand marks a node expanded that lies below
\* a node with two or more children; when the walk has finished, the children
\* of the first such node on its way are loaded, and none is expanded unless
\* the user had loaded and expanded it in the meantime.
C19_NothingBelowForkExpanded ==
  [][ (lastEvent'.op \in {"root", "initialExpand"}) =>
        LET ax == lastEvent'.flag
            store == IF ax THEN AXelements ELSE elements
            store2 == IF ax THEN AXelements' ELSE elements'
            done == IF ax THEN AXinitialised' ELSE initialised'
            fork == FirstFork(1, ax)
        IN  /\ \A id \in DOMAIN store2 :
                 (ExpandedIn(store2, id)
                    /\ ~(id \in DOMAIN store /\ ExpandedIn(store, id))) =>
                   \A a \in RemoteIds :
                     id \in Below(a, ax) => Len(RemoteChildren(a, ax)) < 2
            /\ (done /\ fork # Null) =>
                 \A c \in SeqToSet(RemoteChildren(fork, ax)) :
                   /\ c \in DOMAIN store2
                   /\ ExpandedIn(store2, c) => c \in DOMAIN store ]_vars

\* the walk down the chain has finished at node 4: its children 5 and 6 are
\* loaded and collapsed, and the child 7 of node 5 was never fetched
C19_ForkChildrenCollapsed ==
  /\ InitialExpandDone
  /\ FirstFork(1, FALSE) = 4
  /\ ExpandedIn(elements, 4)
  /\ {5, 6} \subseteq DOMAIN elements
  /\ ~ExpandedIn(elements, 5)
  /\ ~ExpandedIn(elements, 6)
  /\ RemoteChildren(5, FALSE) = <<7>>
  /\ 7 \notin DOMAIN elements

\* the step is the axFocusEvent subscriber handling a notification
FocusNotificationStep ==
  /\ lastEvent'.op \in {"focusEvent", "focusMerged"}
  /\ ops' = ops + 1

\* the step adds one forced accessibility fetch, made for a focus event, of
\* exactly the ids of the set S, each once
RefetchesExactly(S) ==
  LET new == NewCalls(0)
  IN  IF S = {} THEN new = <<>>
      ELSE /\ Len(new) = 1
           /\ new[1].call = "getNodes"
           /\ new[1].ax
           /\ new[1].forFocusEvent
           /\ SeqToSet(new[1].ids) = S
           /\ Len(new[1].ids) = Cardinality(S)

\* C20: an axFocusEvent notification with isFocus true refetches exactly the
\* keys of the accessibility store at that time; with isFocus false it
\* refetches exactly the previously focused id when that id is non-null and
\* loaded, and makes no remote call otherwise.
C20_FocusRequestSet ==
  [][ FocusNotificationStep =>
        IF lastEvent'.flag
          THEN RefetchesExactly(DOMAIN AXelements)
          ELSE IF AXfocused # Null /\ AXfocused \in DOMAIN AXelements
            THEN RefetchesExactly({AXfocused})
            ELSE RefetchesExactly({}) ]_vars

\* focus was lost while node 2 was the focused one and 1, 2 and 3 were
\* loaded: the one request in flight asks for node 2 alone
C20_OnlyFocusedRefetched ==
  /\ lastEvent.op = "focusEvent"
  /\ ~lastEvent.flag
  /\ lastEvent.before = 2
  /\ {1, 2, 3} \subseteq DOMAIN AXelements
  /\ Len(inflight) = 1
  /\ inflight[1].ids = <<2>>
  /\ inflight[1].forFocusEvent

\* a request of an invalidation is awaiting its response
InvalidatePending ==
  \E i \in 1..Len(inflight) : inflight[i].k.kind = "invalidate"

\* C21: on the finite, acyclic remote hierarchy, with every remote call
\* answered, every invalidation that has a request in flight completes: in
\* the end none of its requests is pending.  An invalidation of no ids
\* completes in the step of its notification and makes no remote call.
C21_InvalidateCompletes ==
  /\ InvalidatePending ~> ~InvalidatePending
  /\ [][ (lastEvent'.op \in {"invalidating", "invalidated"} /\ ops' = ops + 1) =>
           IF NewCalls(0) = <<>>
             THEN /\ lastEvent'.op = "invalidated"
                  /\ invDone'.given = <<>>
                  /\ invDone'.hist = <<>>
                  /\ elements' = elements
             ELSE /\ lastEvent'.op = "invalidating"
                  /\ NewCalls(0)[1].ids # <<>> ]_vars

\* an invalidation has gone two levels down and awaits its third response
C21_ThirdLevelPending ==
  \E i \in 1..Len(inflight) :
    /\ inflight[i].k.kind = "invalidate"
    /\ Len(inflight[i].k.hist) = 2
    /\ inflight[i].ids # <<>>

\* the requests the step adds (after removing `removed` answered ones) that
\* continue a deep expansion of the tree ax
LoopCalls(removed, ax) ==
  SelectSeq(NewCalls(removed), LAMBDA c : c.k.loop /\ c.ax = ax)

\* the node id and all nodes below it are loaded and expanded
SubtreeExpanded(store, id, ax) ==
  \A n \in {id} \cup Below(id, ax) : n \in DOMAIN store /\ ExpandedIn(store, n)

\* C22: a deep expand of a collapsed node whose remote subtree has fewer than
\* 100 nodes finishes with every node of the subtree loaded and expanded,
\* whatever was loaded before.  The traversal finishes in the step of the UI
\* event, or in the callback of one of its fetches, that requests nothing more
\* for it.
C22_DeepExpandsWholeSubtree ==
  [][ /\ (lastEvent'.op = "deepExpand" /\ ops' = ops + 1) =>
           LET key == lastEvent'.key
           IN  /\ (/\ key \in DOMAIN elements
                   /\ ~ExpandedIn(elements, key)
                   /\ Cardinality(Below(key, FALSE)) + 1 < DeepExpandCap
                   /\ LoopCalls(0, FALSE) = <<>>) =>
                     SubtreeExpanded(elements', key, FALSE)
               /\ (/\ key \in DOMAIN AXelements
                   /\ ~ExpandedIn(AXelements, key)
                   /\ Cardinality(Below(key, TRUE)) + 1 < DeepExpandCap
                   /\ LoopCalls(0, TRUE) = <<>>) =>
                     SubtreeExpanded(AXelements', key, TRUE)
      /\ \A i \in 1..Len(inflight) :
           (/\ ExpandResponseStep(i)
            /\ inflight[i].k.loop
            /\ Cardinality(Below(inflight[i].k.given[1], inflight[i].ax)) + 1
                 < DeepExpandCap
            /\ LoopCalls(1, inflight[i].ax) = <<>>) =>
             SubtreeExpanded(IF inflight[i].ax THEN AXelements' ELSE elements',
                             inflight[i].k.given[1], inflight[i].ax) ]_vars

\* the part of C22 that holds: a deep expand from a node none of whose
\* descendants is loaded ends with its subtree loaded and expanded (the tree
\* is never deep-expanded from its root before the root's children are loaded)
C22_FreshSubtreeExpanded ==
  [][ \A i \in 1..Len(inflight) :
        (/\ ExpandResponseStep(i)
         /\ inflight[i].k.loop
         /\ inflight[i].k.given[1] # 1
         /\ LoopCalls(1, inflight[i].ax) = <<>>) =>
          SubtreeExpanded(IF inflight[i].ax THEN AXelements' ELSE elements',
                          inflight[i].k.given[1], inflight[i].ax) ]_vars

\* C23: last resolved wins.  In SpecOverlap every focus event changes the
\* remote focus and refetches every loaded accessibility node, so once all
\* chains have finished the response that resolved last for each loaded id
\* was made after the last change of the remote records and carries the
\* remote's current fields; the stored record must carry them too.
C23_LastResolvedWins ==
  (inflight = <<>> /\ remoteFocus # Null) =>
    \A id \in DOMAIN AXelements :
      /\ IsFocused(AXelements[id]) = (remoteFocus = id)
      /\ AXelements[id].children = RemoteChildren(id, TRUE)

\* the part of C23 that holds: when the chains were not interleaved, each
\* response of a focus event is stored as it is
C23_FocusResponseStored ==
  [][ (lastEvent'.op = "focusMerged" /\ ops' = ops) =>
        \A i \in 1..Len(inflight) :
          (inflight[i].k.kind = "focus" /\ OnlyRemoves(i)) =>
            \A id \in SeqToSet(inflight[i].ids) :
              IsFocused(AXelements'[id]) = (remoteFocus = id) ]_vars

\* the record stored under key came from the remote: it carries that id and a
\* children list
FromRemote(store, key) ==
  /\ "id" \in DOMAIN store[key]
  /\ store[key].id = key
  /\ "children" \in DOMAIN store[key]

\* C24: every key of either store maps to a record that came from the remote;
\* no store holds an entry that has an expanded flag alone.
C24_NoStubEntries ==
  /\ \A key \in DOMAIN elements : FromRemote(elements, key)
  /\ \A key \in DOMAIN AXelements : FromRemote(AXelements, key)

\* a click-to-inspect notification for node 4 has been answered: the path down
\* to 4, which was not loaded before, is in the main store, expanded
C24_PathFetchedAndExpanded ==
  /\ lastEvent.op = "selected"
  /\ lastEvent.key = 4
  /\ ~lastEvent.flag
  /\ \A key \in {1, 2, 4} :
       /\ key \in DOMAIN elements
       /\ FromRemote(elements, key)
       /\ ExpandedIn(elements, key)

\* C25: once init() has run, the root gets set and initialised becomes true,
\* whatever invalidate and select notifications and search responses arrive
\* while the initial expansion is under way; and neither is undone afterwards.
C25_InitialisedInTheEnd ==
  /\ started ~> (root # Null /\ initialised)
  /\ [][ (initialised => initialised') /\ (root # Null => root' = root) ]_vars

\* the initial expansion has just finished, after two notifications were
\* handled while it was under way
C25_InitialisedAfterInterleaving ==
  /\ initialised
  /\ root = 1
  /\ lastEvent.op = "initialExpand"
  /\ ops = LiveOps

====
